---- MODULE Spec2Model ----
(***************************************************************************)
(* go-automapper: the reflective mapping engine.                           *)
(*                                                                         *)
(* The model keeps the mapper's configuration (type-mapping registry,      *)
(* compiled strategies, type cache, converter registry, optimization       *)
(* settings) as state, and records the outcome of the most recent mapping  *)
(* call.  Types are the entries of a fixed type table; a record value is   *)
(* the tuple of its field values in declaration order; a pointer value is  *)
(* <<>> (nil) or <<v>>; a float64 is kept in hundredths (9999 is 99.99).   *)
(* Names are sequences of characters so that splitPascalCase is computed.  *)
(***************************************************************************)
EXTENDS Integers, Sequences, FiniteSets

\* ------------------------------------------------------------------------
\* Names (sequences of runes)
\* ------------------------------------------------------------------------
Upper == {"A","B","C","D","E","F","G","H","I","J","K","L","M",
          "N","O","P","Q","R","S","T","U","V","W","X","Y","Z"}

nName == <<"N","a","m","e">>
nAge == <<"A","g","e">>
nEmail == <<"E","m","a","i","l">>
nContact == <<"C","o","n","t","a","c","t">>
nTotal == <<"T","o","t","a","l">>
nCustomer == <<"C","u","s","t","o","m","e","r">>
nNote == <<"N","o","t","e">>
nZip == <<"Z","i","p">>
nCustomerName == nCustomer \o nName
nCustomerZip == nCustomer \o nZip
nTotalName == nTotal \o nName
nOrder == <<"O","r","d","e","r">>
nOrderCustomerName == nOrder \o nCustomer \o nName
nID == <<"I","D">>
nItems == <<"I","t","e","m","s">>
nTags == <<"T","a","g","s">>
nStreet == <<"S","t","r","e","e","t">>
nCity == <<"C","i","t","y">>
nAddress == <<"A","d","d","r","e","s","s">>
nLog == <<"L","o","g">>
nLabels == <<"L","a","b","e","l","s">>
nBase == <<"B","a","s","e">>
nVal == <<"V","a","l">>
nNext == <<"N","e","x","t">>
NoName == <<>>

\* ------------------------------------------------------------------------
\* The type table (reflect.Type of the program's types)
\* ------------------------------------------------------------------------
F(n, t) == [name |-> n, type |-> t, anonymous |-> FALSE]
\* an embedded field: its name is the name of its type
Embedded(n, t) == [name |-> n, type |-> t, anonymous |-> TRUE]

ScalarTypes == {"int", "int64", "string", "float64"}
StructTypes == {"SourceBasic", "DestBasic", "DestMixed", "Customer",
                "Order", "OrderP", "OrderX", "OrderDTO", "OrderView",
                "Shipment", "ShipmentDTO",
                "SourceItem", "DestItem", "SourceWithSlice", "DestWithSlice",
                "Address", "AddressDTO", "SourceWithPointer", "DestWithPointer",
                "DestAudit", "OrderText", "SourceCatalog", "DestCatalog",
                "Base", "Derived", "DerivedDTO", "Node", "NodeDTO"}
PtrTypes == {"*Customer", "*SourceBasic", "*Order", "*OrderP", "*OrderX", "*Shipment",
             "*Address", "*AddressDTO", "*SourceWithPointer", "*SourceWithSlice", "*SourceItem",
             "*DestItem", "*string", "*SourceCatalog",
             "*Derived", "*DerivedDTO", "*Node", "*NodeDTO"}
SliceTypes == {"[]SourceItem", "[]DestItem", "[]string"}
MapTypes == {"map[string]string", "map[string]SourceItem", "map[string]DestItem"}

Kind(t) ==
    CASE t = "int" -> "Int"
      [] t = "int64" -> "Int64"
      [] t = "string" -> "String"
      [] t = "float64" -> "Float64"
      [] t \in PtrTypes -> "Ptr"
      [] t \in SliceTypes -> "Slice"
      [] t \in MapTypes -> "Map"
      [] OTHER -> "Struct"

Elem(t) ==
    CASE t = "*Customer" -> "Customer"
      [] t = "*SourceBasic" -> "SourceBasic"
      [] t = "*Order" -> "Order"
      [] t = "*OrderP" -> "OrderP"
      [] t = "*OrderX" -> "OrderX"
      [] t = "*Shipment" -> "Shipment"
      [] t = "*Address" -> "Address"
      [] t = "*AddressDTO" -> "AddressDTO"
      [] t = "*SourceWithPointer" -> "SourceWithPointer"
      [] t = "*SourceWithSlice" -> "SourceWithSlice"
      [] t = "*SourceItem" -> "SourceItem"
      [] t = "*DestItem" -> "DestItem"
      [] t = "*string" -> "string"
      [] t = "[]SourceItem" -> "SourceItem"
      [] t = "[]DestItem" -> "DestItem"
      [] t = "[]string" -> "string"
      [] t = "*SourceCatalog" -> "SourceCatalog"
      [] t = "*Derived" -> "Derived"
      [] t = "*DerivedDTO" -> "DerivedDTO"
      [] t = "*Node" -> "Node"
      [] t = "*NodeDTO" -> "NodeDTO"
      [] t = "map[string]string" -> "string"
      [] t = "map[string]SourceItem" -> "SourceItem"
      [] t = "map[string]DestItem" -> "DestItem"

\* reflect.Type.Key of the table's map types
Key(t) == "string"

PtrTo(t) ==
    CASE t = "Customer" -> "*Customer"
      [] t = "SourceBasic" -> "*SourceBasic"
      [] t = "Order" -> "*Order"
      [] t = "OrderP" -> "*OrderP"
      [] t = "OrderX" -> "*OrderX"
      [] t = "Shipment" -> "*Shipment"
      [] t = "Address" -> "*Address"
      [] t = "AddressDTO" -> "*AddressDTO"
      [] t = "SourceWithPointer" -> "*SourceWithPointer"
      [] t = "SourceWithSlice" -> "*SourceWithSlice"
      [] t = "SourceItem" -> "*SourceItem"
      [] t = "DestItem" -> "*DestItem"
      [] t = "string" -> "*string"
      [] t = "SourceCatalog" -> "*SourceCatalog"
      [] t = "Derived" -> "*Derived"
      [] t = "DerivedDTO" -> "*DerivedDTO"
      [] t = "Node" -> "*Node"
      [] t = "NodeDTO" -> "*NodeDTO"

StructFields(t) ==
    CASE t = "SourceBasic" -> <<F(nName, "string"), F(nAge, "int"), F(nEmail, "string")>>
      [] t = "DestBasic" -> <<F(nName, "string"), F(nAge, "int"), F(nEmail, "string")>>
      [] t = "DestMixed" -> <<F(nName, "string"), F(nAge, "int64"), F(nContact, "string")>>
      [] t = "Customer" -> <<F(nName, "string")>>
      [] t = "Order" -> <<F(nTotal, "float64"), F(nCustomer, "Customer")>>
      [] t = "OrderP" -> <<F(nTotal, "float64"), F(nCustomer, "*Customer")>>
      [] t = "OrderX" -> <<F(nTotal, "float64"), F(nCustomer, "Customer"),
                           F(nCustomerName, "string")>>
      [] t = "OrderDTO" -> <<F(nTotal, "float64"), F(nCustomerName, "string")>>
      [] t = "OrderView" -> <<F(nCustomerName, "string"), F(nNote, "string"),
                              F(nTotalName, "string"), F(nCustomerZip, "string")>>
      [] t = "Shipment" -> <<F(nOrder, "Order")>>
      [] t = "ShipmentDTO" -> <<F(nOrderCustomerName, "string")>>
      [] t = "SourceItem" -> <<F(nID, "int"), F(nName, "string")>>
      [] t = "DestItem" -> <<F(nID, "int"), F(nName, "string")>>
      [] t = "SourceWithSlice" -> <<F(nName, "string"), F(nItems, "[]SourceItem"),
                                    F(nTags, "[]string")>>
      [] t = "DestWithSlice" -> <<F(nName, "string"), F(nItems, "[]DestItem"),
                                  F(nTags, "[]string")>>
      [] t = "Address" -> <<F(nStreet, "string"), F(nCity, "string")>>
      [] t = "AddressDTO" -> <<F(nStreet, "string"), F(nCity, "string")>>
      [] t = "SourceWithPointer" -> <<F(nName, "string"), F(nAddress, "*Address")>>
      [] t = "DestWithPointer" -> <<F(nName, "string"), F(nAddress, "*AddressDTO")>>
      [] t = "DestAudit" -> <<F(nName, "string"), F(nAge, "int"), F(nLog, "[]string")>>
      [] t = "OrderText" -> <<F(nTotal, "float64"), F(nCustomer, "string")>>
      [] t = "SourceCatalog" -> <<F(nName, "string"), F(nLabels, "map[string]string"),
                                  F(nItems, "map[string]SourceItem")>>
      [] t = "DestCatalog" -> <<F(nName, "string"), F(nLabels, "map[string]string"),
                                F(nItems, "map[string]DestItem")>>
      [] t = "Base" -> <<F(nID, "int"), F(nName, "string")>>
      [] t = "Derived" -> <<Embedded(nBase, "Base"), F(nName, "string")>>
      [] t = "DerivedDTO" -> <<F(nID, "int"), F(nName, "string")>>
      [] t = "Node" -> <<F(nVal, "int"), F(nNext, "*Node")>>
      [] t = "NodeDTO" -> <<F(nVal, "int"), F(nNext, "*NodeDTO")>>
      [] OTHER -> <<>>

IsExported(n) == Len(n) > 0 /\ n[1] \in Upper

\* reflect.Type.AssignableTo, on the table's types (no interface types):
\* identical types only.
AssignableTo(s, d) == s = d

IsNumeric(t) == Kind(t) \in {"Int", "Int64", "Float64"}

\* reflect.Type.ConvertibleTo: numeric to numeric, integer to string, and
\* types with identical underlying types (records with the same fields).
ConvertibleTo(s, d) ==
    \/ s = d
    \/ IsNumeric(s) /\ IsNumeric(d)
    \/ Kind(s) \in {"Int", "Int64"} /\ Kind(d) = "String"
    \/ Kind(s) = "Struct" /\ Kind(d) = "Struct" /\ StructFields(s) = StructFields(d)

\* string(rune(n)) for the integers of the value universe
RuneString(n) ==
    CASE n = 0 -> "\\x00"
      [] n = 15 -> "\\x0f"
      [] n = 65 -> "A"
      [] n = 9 -> "\\t"
      [] OTHER -> "\\ufffd"

\* reflect.Value.Convert
Convert(s, d, v) ==
    CASE s = d -> v
      [] Kind(s) \in {"Int", "Int64"} /\ Kind(d) \in {"Int", "Int64"} -> v
      [] Kind(s) \in {"Int", "Int64"} /\ Kind(d) = "Float64" -> v * 100
      [] Kind(s) = "Float64" /\ Kind(d) \in {"Int", "Int64"} -> v \div 100
      [] Kind(s) \in {"Int", "Int64"} /\ Kind(d) = "String" -> RuneString(v)
      [] OTHER -> v

\* A slice value: nil is Go's nil slice; a non-nil slice holds its elements
NilSlice == [nil |-> TRUE, elems |-> <<>>]
MakeSlice(elems) == [nil |-> FALSE, elems |-> elems]

\* A map value: nil is Go's nil map; a non-nil map holds its entries
NilMap == [nil |-> TRUE, entries |-> [k \in {} |-> 0]]
MakeMap(entries) == [nil |-> FALSE, entries |-> entries]

RECURSIVE Zero(_)
\* reflect.Zero: the zero value of a type
Zero(t) ==
    CASE Kind(t) = "String" -> ""
      [] Kind(t) = "Ptr" -> <<>>
      [] Kind(t) = "Slice" -> NilSlice
      [] Kind(t) = "Map" -> NilMap
      [] Kind(t) = "Struct" -> [i \in 1..Len(StructFields(t)) |-> Zero(StructFields(t)[i].type)]
      [] OTHER -> 0

\* ------------------------------------------------------------------------
\* Partial maps (Go maps): functions whose DOMAIN is the set of keys present
\* ------------------------------------------------------------------------
EmptyMap == [k \in {} |-> 0]
Put(f, k, v) == [x \in (DOMAIN f) \cup {k} |-> IF x = k THEN v ELSE f[x]]

\* a local variable x := ... (as srcInfo := cache.getTypeInfo(tm.srcType),
\* mapper.go:220); K is the code that follows the assignment
With(x, K(_)) == K(x)

\* ------------------------------------------------------------------------
\* Type metadata cache
\* ------------------------------------------------------------------------
RECURSIVE SplitFrom(_, _, _, _)
SplitFrom(runes, i, words, current) ==
    IF i > Len(runes)
    THEN IF Len(current) > 0 THEN Append(words, current) ELSE words
    ELSE IF runes[i] \in Upper /\ i > 1 /\ Len(current) > 0
         THEN SplitFrom(runes, i + 1, Append(words, current), <<runes[i]>>)
         ELSE SplitFrom(runes, i + 1, words, Append(current, runes[i]))

splitPascalCase(s) == IF Len(s) = 0 THEN <<>> ELSE SplitFrom(s, 1, <<>>, <<>>)

RECURSIVE collectFields(_, _, _, _)
\* fields of t from position i on, appended to acc (the info.fields list)
collectFields(t, index, i, acc) ==
    IF i > Len(StructFields(t)) THEN acc
    ELSE With(StructFields(t)[i], LAMBDA field :
           LET fieldIdx == Append(index, i)
               ft == IF Kind(field.type) = "Ptr" THEN Elem(field.type) ELSE field.type
           IN IF field.anonymous /\ Kind(ft) = "Struct"
              THEN collectFields(t, index, i + 1, collectFields(ft, fieldIdx, 1, acc))
              ELSE IF ~IsExported(field.name)
                   THEN collectFields(t, index, i + 1, acc)
                   ELSE collectFields(t, index, i + 1,
                          Append(acc, [name |-> field.name, index |-> fieldIdx,
                                       fieldType |-> field.type])))

buildTypeInfo(t) ==
    [typ |-> t,
     fields |-> IF Kind(t) # "Struct" THEN <<>> ELSE collectFields(t, <<>>, 1, <<>>)]

\* info.fieldsByName[name]: the map keeps the last field stored under a name
HasField(info, n) == \E i \in 1..Len(info.fields) : info.fields[i].name = n
FieldByName(info, n) ==
    LET is == {i \in 1..Len(info.fields) : info.fields[i].name = n}
    IN info.fields[CHOOSE i \in is : \A j \in is : j <= i]

\* typeCache.getTypeInfo: returns the info and the cache after the call
getTypeInfo(cache, t0) ==
    With(IF Kind(t0) = "Ptr" THEN Elem(t0) ELSE t0, LAMBDA t :
      IF t \in DOMAIN cache
      THEN [info |-> cache[t], cache |-> cache]
      ELSE With(buildTypeInfo(t), LAMBDA info :
             [info |-> info, cache |-> Put(cache, t, info)]))

\* ------------------------------------------------------------------------
\* Type mappings and auto-configuration
\* ------------------------------------------------------------------------
OptimizationNone == 0
OptimizationPooled == 1
OptimizationUnsafe == 2
OptimizationSpecialized == 3

\* a MemberMap with every field at its Go zero value
NewMemberMap(destField, destFieldIdx) ==
    [destField |-> destField, destFieldIdx |-> destFieldIdx,
     srcField |-> NoName, srcFieldIdx |-> <<>>,
     resolver |-> "", converter |-> "", condition |-> "",
     ignore |-> FALSE, useFlattening |-> FALSE, flattenPath |-> <<>>]

RECURSIVE FlattenWalk(_, _, _, _, _)
\* a walk that does not unwrap a pointer-typed intermediate field
FlattenWalkNoUnwrap(path, i, currentType, indices, cache) ==
    IF i > Len(path) THEN [found |-> TRUE, indices |-> indices, cache |-> cache]
    ELSE With(getTypeInfo(cache, currentType), LAMBDA r :
           IF ~HasField(r.info, path[i])
           THEN [found |-> FALSE, cache |-> r.cache]
           ELSE With(FieldByName(r.info, path[i]), LAMBDA field :
                  IF i < Len(path)
                  THEN IF Kind(field.fieldType) # "Struct"
                       THEN [found |-> FALSE, cache |-> r.cache]
                       ELSE FlattenWalk(path, i + 1, field.fieldType,
                                        indices \o field.index, r.cache)
                  ELSE FlattenWalk(path, i + 1, currentType,
                                   indices \o field.index, r.cache)))

\* the loop of tryFlattenMatch from part i on; yields the collected indices
FlattenWalk(path, i, currentType, indices, cache) ==
    IF i > Len(path) THEN [found |-> TRUE, indices |-> indices, cache |-> cache]
    ELSE With(getTypeInfo(cache, currentType), LAMBDA r :
           IF ~HasField(r.info, path[i])
           THEN [found |-> FALSE, cache |-> r.cache]
           ELSE With(FieldByName(r.info, path[i]), LAMBDA field :
                  IF i < Len(path)
                  THEN With(IF Kind(field.fieldType) = "Ptr"
                            THEN Elem(field.fieldType) ELSE field.fieldType, LAMBDA ft :
                         IF Kind(ft) # "Struct"
                         THEN [found |-> FALSE, cache |-> r.cache]
                         ELSE FlattenWalk(path, i + 1, ft, indices \o field.index, r.cache))
                  ELSE FlattenWalk(path, i + 1, currentType,
                                   indices \o field.index, r.cache)))

tryFlattenMatch(srcType, path, destField, cache) ==
    With(FlattenWalk(path, 1, srcType, <<>>, cache), LAMBDA w :
      IF ~w.found THEN [found |-> FALSE, cache |-> w.cache]
      ELSE [found |-> TRUE, cache |-> w.cache,
            mm |-> [NewMemberMap(destField.name, destField.index) EXCEPT
                      !.srcField = path[1], !.srcFieldIdx = w.indices,
                      !.useFlattening = TRUE, !.flattenPath = path]])

\* a matcher that tries flattening before the exact name
findSourceMemberFlattenFirst(srcType, destField, cache) ==
    With(getTypeInfo(cache, srcType), LAMBDA r :
      With(splitPascalCase(destField.name), LAMBDA flattenPath :
        With(IF Len(flattenPath) > 1
             THEN tryFlattenMatch(srcType, flattenPath, destField, r.cache)
             ELSE [found |-> FALSE, cache |-> r.cache], LAMBDA f :
          IF f.found THEN f
          ELSE IF HasField(r.info, destField.name)
          THEN With(FieldByName(r.info, destField.name), LAMBDA srcField :
                 [found |-> TRUE, cache |-> f.cache,
                  mm |-> [NewMemberMap(destField.name, destField.index) EXCEPT
                            !.srcField = srcField.name, !.srcFieldIdx = srcField.index]])
          ELSE [found |-> FALSE, cache |-> f.cache])))

findSourceMember(srcType, destField, cache) ==
    With(getTypeInfo(cache, srcType), LAMBDA r :
      IF HasField(r.info, destField.name)
      THEN With(FieldByName(r.info, destField.name), LAMBDA srcField :
             [found |-> TRUE, cache |-> r.cache,
              mm |-> [NewMemberMap(destField.name, destField.index) EXCEPT
                        !.srcField = srcField.name, !.srcFieldIdx = srcField.index]])
      ELSE With(splitPascalCase(destField.name), LAMBDA flattenPath :
             IF Len(flattenPath) > 1
             THEN tryFlattenMatch(srcType, flattenPath, destField, r.cache)
             ELSE [found |-> FALSE, cache |-> r.cache]))

RECURSIVE ConfigureFrom(_, _, _, _, _)
\* an auto-configuration that binds an unmatched field to the first source field
ConfigureFromPositional(srcType, destFields, i, memberMaps, cache) ==
    IF i > Len(destFields) THEN [memberMaps |-> memberMaps, cache |-> cache]
    ELSE With(findSourceMember(srcType, destFields[i], cache), LAMBDA r :
           ConfigureFrom(srcType, destFields, i + 1,
                         Append(memberMaps,
                                IF r.found THEN r.mm
                                ELSE [NewMemberMap(destFields[i].name, destFields[i].index)
                                        EXCEPT !.srcFieldIdx = <<1>>]),
                         r.cache))

ConfigureFrom(srcType, destFields, i, memberMaps, cache) ==
    IF i > Len(destFields) THEN [memberMaps |-> memberMaps, cache |-> cache]
    ELSE With(findSourceMember(srcType, destFields[i], cache), LAMBDA r :
           ConfigureFrom(srcType, destFields, i + 1,
                         IF r.found THEN Append(memberMaps, r.mm) ELSE memberMaps,
                         r.cache))

\* TypeMap.autoConfigureMembers: the member maps and the cache after the call
autoConfigureMembers(srcType, destType, cache) ==
    With(getTypeInfo(cache, destType), LAMBDA d :
      ConfigureFrom(srcType, d.info.fields, 1, <<>>, d.cache))

NewTypeMap(srcType, destType, memberMaps) ==
    [srcType |-> srcType, destType |-> destType, memberMaps |-> memberMaps,
     customMapper |-> "", beforeMap |-> <<>>, afterMap |-> <<>>]

\* ------------------------------------------------------------------------
\* Optimization compiler
\* ------------------------------------------------------------------------
isPrimitiveKind(k) == k \in {"Bool", "Int", "Int8", "Int16", "Int32", "Int64",
                             "Uint", "Uint8", "Uint16", "Uint32", "Uint64",
                             "Float32", "Float64", "String"}

RECURSIVE Size(_)
\* reflect.Type.Size on a 64-bit build
Size(t) ==
    CASE Kind(t) = "String" -> 16
      [] Kind(t) = "Slice" -> 24
      [] Kind(t) = "Struct" ->
           LET fs == StructFields(t)
               sum[i \in 0..Len(fs)] == IF i = 0 THEN 0 ELSE sum[i - 1] + Size(fs[i].type)
           IN sum[Len(fs)]
      [] OTHER -> 8

\* reflect.StructField.Offset: every field of the table is 8-byte aligned
Offset(t, i) ==
    LET fs == StructFields(t)
        sum[j \in 0..Len(fs)] == IF j = 0 THEN 0 ELSE sum[j - 1] + Size(fs[j].type)
    IN sum[i - 1]

OptimizeMember(tm, mm) ==
    LET single == Len(mm.srcFieldIdx) = 1 /\ Len(mm.destFieldIdx) = 1
        custom == mm.resolver # "" \/ mm.converter # "" \/ mm.condition # ""
    IN IF single
       THEN With(StructFields(tm.srcType)[mm.srcFieldIdx[1]], LAMBDA srcField :
            With(StructFields(tm.destType)[mm.destFieldIdx[1]], LAMBDA destField :
            With(isPrimitiveKind(Kind(srcField.type)) /\ isPrimitiveKind(Kind(destField.type)),
                 LAMBDA prim :
               [srcKind |-> Kind(srcField.type), destKind |-> Kind(destField.type),
                primitiveKinds |-> prim,
                isPrimitive |-> prim /\ ~custom,
                srcOffset |-> Offset(tm.srcType, mm.srcFieldIdx[1]),
                destOffset |-> Offset(tm.destType, mm.destFieldIdx[1]),
                fieldSize |-> Size(srcField.type),
                directAssign |-> srcField.type = destField.type /\ prim])))
       ELSE [srcKind |-> "Invalid", destKind |-> "Invalid",
             primitiveKinds |-> FALSE, isPrimitive |-> FALSE,
             srcOffset |-> 0, destOffset |-> 0, fieldSize |-> 0,
             directAssign |-> FALSE]

\* compileOptimizedTypeMap.  optimizedMembers[i] is the metadata compiled for
\* tm.memberMaps[i] (the Go value embeds the pointer to that MemberMap, and
\* the TypeMapOptimized the pointer to tm, so later builder calls show through).
compileOptimizedTypeMap(tm, level) ==
    With([i \in 1..Len(tm.memberMaps) |-> OptimizeMember(tm, tm.memberMaps[i])],
         LAMBDA members :
    With(\A i \in 1..Len(members) : members[i].primitiveKinds, LAMBDA allPrimitive :
    With(\/ tm.customMapper # "" \/ Len(tm.beforeMap) > 0 \/ Len(tm.afterMap) > 0
         \/ \E i \in 1..Len(tm.memberMaps) :
               \/ tm.memberMaps[i].resolver # ""
               \/ tm.memberMaps[i].converter # ""
               \/ tm.memberMaps[i].condition # "", LAMBDA hasCustomLogic :
       [optimizedMembers |-> members,
        specializedFn |-> level >= OptimizationSpecialized /\ allPrimitive /\ ~hasCustomLogic,
        allPrimitive |-> allPrimitive,
        hasCustomLogic |-> hasCustomLogic,
        compiled |-> TRUE])))

\* ------------------------------------------------------------------------
\* Errors: the Unwrap chain, outermost first; <<>> is nil.  A run-time panic
\* is the one-frame chain Panic, which no caller wraps or recovers.
\* ------------------------------------------------------------------------
NoErr == <<>>
Frame(msg, field) == [msg |-> msg, field |-> field]
Err(msg) == <<Frame(msg, NoName)>>
Panic == Err("panic")
IsPanic(e) == Len(e) > 0 /\ e[1].msg = "panic"
Wrap(msg, field, e) == IF IsPanic(e) THEN e ELSE <<Frame(msg, field)>> \o e

Ok(cfg, v) == [err |-> NoErr, v |-> v, cfg |-> cfg]
Fail(cfg, e, v) == [err |-> e, v |-> v, cfg |-> cfg]

\* "if err := ...; err != nil { return err }" (as engine.go:178-182): the
\* step K runs on a result without error
Then(r, K(_)) == IF Len(r.err) > 0 THEN r ELSE K(r)

\* ------------------------------------------------------------------------
\* reflect.Value: Invalid is the zero Value; addr is CanAddr()
\* ------------------------------------------------------------------------
Invalid == [valid |-> FALSE, t |-> "", v |-> 0, addr |-> FALSE]
RV(t, v, addr) == [valid |-> TRUE, t |-> t, v |-> v, addr |-> addr]

RECURSIVE derefValue(_)
derefValue(rv) ==
    IF rv.valid /\ Kind(rv.t) = "Ptr"
    THEN IF rv.v = <<>> THEN Invalid ELSE derefValue(RV(Elem(rv.t), rv.v[1], TRUE))
    ELSE rv

RECURSIVE NestedFrom(_, _, _)
NestedFrom(v0, indices, k) ==
    IF k > Len(indices) THEN v0
    ELSE IF Kind(v0.t) = "Ptr" /\ v0.v = <<>> THEN Invalid
    ELSE LET v == IF Kind(v0.t) = "Ptr" THEN RV(Elem(v0.t), v0.v[1], TRUE) ELSE v0
         IN IF Kind(v.t) # "Struct" THEN Invalid
            ELSE IF indices[k] > Len(StructFields(v.t)) THEN Invalid
            ELSE NestedFrom(RV(StructFields(v.t)[indices[k]].type, v.v[indices[k]], v.addr),
                            indices, k + 1)

getNestedField(v0, indices) ==
    LET v == derefValue(v0)
    IN IF ~v.valid THEN Invalid ELSE NestedFrom(v, indices, 1)

\* reflect.Value.FieldByName on a record value (fields of the record itself)
ValueFieldByName(s, n) ==
    LET fs == StructFields(s.t)
        is == {i \in 1..Len(fs) : fs[i].name = n}
    IN IF is = {} THEN Invalid
       ELSE LET i == CHOOSE j \in is : \A k \in is : j <= k
            IN RV(fs[i].type, s.v[i], s.addr)

RECURSIVE FieldByIndex(_, _, _, _)
\* reflect.Value.FieldByIndex: the field's type and value; it panics when the
\* path runs through a nil embedded pointer
FieldByIndex(t, v, idx, k) ==
    IF k > Len(idx) THEN [panic |-> FALSE, t |-> t, v |-> v]
    ELSE IF Kind(t) = "Ptr"
         THEN IF v = <<>> THEN [panic |-> TRUE, t |-> t, v |-> v]
              ELSE FieldByIndex(Elem(t), v[1], idx, k)
         ELSE FieldByIndex(StructFields(t)[idx[k]].type, v[idx[k]], idx, k + 1)

RECURSIVE SetByIndex(_, _, _, _, _)
\* the record value after the field at path idx has been set to x
SetByIndex(t, v, idx, k, x) ==
    IF k > Len(idx) THEN x
    ELSE IF Kind(t) = "Ptr"
         THEN <<SetByIndex(Elem(t), v[1], idx, k, x)>>
         ELSE [v EXCEPT ![idx[k]] = SetByIndex(StructFields(t)[idx[k]].type, v[idx[k]],
                                               idx, k + 1, x)]

\* ------------------------------------------------------------------------
\* User callbacks.  A callback is named in the configuration; these tables
\* are the functions the program registered under those names.
\* ------------------------------------------------------------------------
StrUpper(s) ==
    CASE s = "a" -> "A"
      [] s = "e" -> "E"
      [] s = "z" -> "Z"
      [] s = "x" -> "X"
      [] s = "resolved_e" -> "RESOLVED_E"
      [] s = "resolved_" -> "RESOLVED_"
      [] OTHER -> s

\* global converters registered with ConvertUsing: name -> type pair.
\* "strict" returns an error for the empty string.
ConverterKey(c) ==
    CASE c = "upper" -> <<"string", "string">>
      [] c = "widen" -> <<"int", "int64">>
      [] c = "strict" -> <<"string", "string">>

ApplyConverter(c, v) ==
    CASE c = "upper" -> [err |-> NoErr, v |-> StrUpper(v)]
      [] c = "widen" -> [err |-> NoErr, v |-> v + 1000]
      [] c = "strict" -> IF v = "" THEN [err |-> Err("empty string"), v |-> v]
                         ELSE [err |-> NoErr, v |-> v]

\* ConditionFunc "adult": src.(SourceBasic).Age >= 18
ApplyCondition(c, s) ==
    CASE c = "adult" -> ValueFieldByName(s, nAge).v >= 18

\* ValueResolver "resolved": "resolved_" + src.(SourceBasic).Email;
\* "broken" returns an error
ApplyResolver(r, s) ==
    CASE r = "resolved" ->
           LET e == ValueFieldByName(s, nEmail).v
           IN [err |-> NoErr,
               rv |-> RV("string", IF e = "e" THEN "resolved_e" ELSE "resolved_", FALSE)]
      [] r = "broken" -> [err |-> Err("resolver failed"), rv |-> Invalid]

\* field-level TypeConverter "upperField": strings.ToUpper(src.(string)),
\* an error for any other dynamic type
ApplyFieldConverter(c, rv) ==
    CASE c = "upperField" ->
           IF rv.t = "string"
           THEN [err |-> NoErr, rv |-> RV("string", StrUpper(rv.v), FALSE)]
           ELSE [err |-> Err("not a string"), rv |-> Invalid]

\* the mark a recording hook leaves
HookTag(h) == IF h = "seen1" THEN "1" ELSE "2"

\* BeforeAfterMapFunc: "modify" sets the destination's first field to
\* "Modified"; "failing" returns an error; "seen1" and "seen2" (hooks on
\* DestAudit) append their mark and the Name they find in the destination
\* to its Log; "checkID" (a hook on SourceItem) returns an error for ID 2
ApplyHook(h, s, destT, destV) ==
    CASE h = "modify" -> [err |-> NoErr, v |-> [destV EXCEPT ![1] = "Modified"]]
      [] h = "failing" -> [err |-> Err("hook failed"), v |-> destV]
      [] h \in {"seen1", "seen2"} ->
           [err |-> NoErr,
            v |-> [destV EXCEPT ![3] = MakeSlice(@.elems \o <<HookTag(h), destV[1]>>)]]
      [] h = "checkID" ->
           [err |-> IF s.v[1] = 2 THEN Err("bad id") ELSE NoErr, v |-> destV]

\* a custom transform that is never found
NoCustomMapper(tm) == FALSE

\* typeMap.customMapper != nil
HasCustomMapper(tm) == tm.customMapper # ""

\* CustomMapperFunc "custom": sets the destination's first field to "Custom"
ApplyCustom(c, s, destT, destV) ==
    CASE c = "custom" -> [err |-> NoErr, v |-> [destV EXCEPT ![1] = "Custom"]]

\* ------------------------------------------------------------------------
\* Mapping execution engine.  cfg is the MapperConfiguration; every
\* operation yields [err, v, cfg]: the error, the destination slot's value
\* and the configuration after the call (a mapping call may auto-create
\* type mappings and fill the type cache).
\* ------------------------------------------------------------------------
RECURSIVE mapValue(_, _, _, _)
RECURSIVE mapStruct(_, _, _, _)
RECURSIVE mapStructStandard(_, _, _, _, _)
RECURSIVE mapStructOptimized(_, _, _, _, _, _)
RECURSIVE mapMember(_, _, _, _, _)
RECURSIVE mapMemberUnsafe(_, _, _, _, _, _)
RECURSIVE assignValue(_, _, _, _)
RECURSIVE MembersFrom(_, _, _, _, _, _)
RECURSIVE UnsafeMembersFrom(_, _, _, _, _, _, _)
RECURSIVE mapSlice(_, _, _, _)
RECURSIVE SliceFrom(_, _, _, _, _)
RECURSIVE mapMap(_, _, _, _)
RECURSIVE MapEntriesFrom(_, _, _, _, _)

autoCreateTypeMap(cfg, key) ==
    IF key \in DOMAIN cfg.typeMaps THEN cfg
    ELSE With(autoConfigureMembers(key[1], key[2], cfg.typeCache), LAMBDA a :
         With(NewTypeMap(key[1], key[2], a.memberMaps), LAMBDA tm :
           [cfg EXCEPT
              !.typeMaps = Put(cfg.typeMaps, key, tm),
              !.typeCache = a.cache,
              !.optimizedMaps =
                  IF cfg.optLevel > OptimizationNone
                  THEN Put(cfg.optimizedMaps, key, compileOptimizedTypeMap(tm, cfg.optLevel))
                  ELSE cfg.optimizedMaps]))

\* an absent source that clears the destination slot
AbsentSourceCleared(cfg, destT, destV) == Ok(cfg, Zero(destT))

\* "if !srcVal.IsValid() { return nil }" (engine.go:77-85, 257-260): the
\* destination slot is not touched
AbsentSource(cfg, destT, destV) == Ok(cfg, destV)

RECURSIVE RunHooks(_, _, _, _, _)
\* a loop that takes the hooks of a list last to first
RunHooksLastFirst(hooks, i, s, destT, destV) ==
    IF i > Len(hooks) THEN [err |-> NoErr, v |-> destV]
    ELSE LET r == ApplyHook(hooks[Len(hooks) + 1 - i], s, destT, destV)
         IN IF Len(r.err) > 0 THEN r ELSE RunHooks(hooks, i + 1, s, destT, r.v)

\* the loop over a hook list, from hook i on
RunHooks(hooks, i, s, destT, destV) ==
    IF i > Len(hooks) THEN [err |-> NoErr, v |-> destV]
    ELSE LET r == ApplyHook(hooks[i], s, destT, destV)
         IN IF Len(r.err) > 0 THEN r ELSE RunHooks(hooks, i + 1, s, destT, r.v)

mapValue(cfg, srcVal0, destT0, destV0) ==
    With(derefValue(srcVal0), LAMBDA srcVal :
      IF ~srcVal.valid THEN AbsentSource(cfg, destT0, destV0)
      ELSE LET isPtr == Kind(destT0) = "Ptr" IN
           With(IF isPtr THEN Elem(destT0) ELSE destT0, LAMBDA destT :
           With(IF isPtr
                THEN (IF destV0 = <<>> THEN Zero(destT) ELSE destV0[1])
                ELSE destV0, LAMBDA destV :
             LET key == <<srcVal.t, destT>>
             IN [ (IF key \in DOMAIN cfg.converters
                   THEN LET c == ApplyConverter(cfg.converters[key], srcVal.v)
                        IN IF Len(c.err) > 0 THEN Fail(cfg, c.err, destV)
                           ELSE Ok(cfg, c.v)
                   ELSE IF Kind(srcVal.t) = "Struct"
                        THEN mapStruct(cfg, srcVal, destT, destV)
                   ELSE IF Kind(srcVal.t) = "Slice"
                        THEN mapSlice(cfg, srcVal, destT, destV)
                   ELSE IF Kind(srcVal.t) = "Map"
                        THEN mapMap(cfg, srcVal, destT, destV)
                   ELSE IF AssignableTo(srcVal.t, destT) THEN Ok(cfg, srcVal.v)
                   ELSE IF ConvertibleTo(srcVal.t, destT)
                        THEN Ok(cfg, Convert(srcVal.t, destT, srcVal.v))
                   ELSE Fail(cfg, Err("incompatible types"), destV))
                  EXCEPT !.v = IF isPtr THEN <<@>> ELSE @ ])))

mapStruct(cfg, srcVal, destT, destV) ==
    LET key == <<srcVal.t, destT>>
        exists == key \in DOMAIN cfg.typeMaps
        hasOpt == key \in DOMAIN cfg.optimizedMaps
    IN With(IF exists THEN cfg ELSE autoCreateTypeMap(cfg, key), LAMBDA cfg1 :
         IF cfg.optLevel > OptimizationNone /\ hasOpt /\ cfg.optimizedMaps[key].compiled
         THEN mapStructOptimized(cfg1, srcVal, destT, destV, cfg1.typeMaps[key],
                                 cfg.optimizedMaps[key])
         ELSE mapStructStandard(cfg1, srcVal, destT, destV, cfg1.typeMaps[key]))

MembersFrom(cfg, srcVal, destT, destV, members, i) ==
    IF i > Len(members) THEN Ok(cfg, destV)
    ELSE Then(mapMember(cfg, srcVal, destT, destV, members[i]),
              LAMBDA r : MembersFrom(r.cfg, srcVal, destT, r.v, members, i + 1))

mapStructStandard(cfg, srcVal, destT, destV, typeMap) ==
    LET b == RunHooks(typeMap.beforeMap, 1, srcVal, destT, destV)
    IN IF Len(b.err) > 0 THEN Fail(cfg, b.err, b.v)
       ELSE IF HasCustomMapper(typeMap)
       THEN LET c == ApplyCustom(typeMap.customMapper, srcVal, destT, b.v)
            IN [err |-> c.err, v |-> c.v, cfg |-> cfg]
       ELSE Then(MembersFrom(cfg, srcVal, destT, b.v, typeMap.memberMaps, 1),
                 LAMBDA m : LET a == RunHooks(typeMap.afterMap, 1, srcVal, destT, m.v)
                            IN [err |-> a.err, v |-> a.v, cfg |-> m.cfg])

mapMember(cfg, srcVal, destT, destV, mm) ==
    IF mm.ignore THEN Ok(cfg, destV)
    ELSE IF mm.condition # "" /\ ~ApplyCondition(mm.condition, srcVal) THEN Ok(cfg, destV)
    ELSE With(FieldByIndex(destT, destV, mm.destFieldIdx, 1), LAMBDA destField :
      IF destField.panic THEN Fail(cfg, Panic, destV)
      ELSE With(IF mm.resolver # "" THEN ApplyResolver(mm.resolver, srcVal)
                ELSE [err |-> NoErr,
                      rv |-> IF Len(mm.srcFieldIdx) > 0
                             THEN getNestedField(srcVal, mm.srcFieldIdx)
                             ELSE IF mm.srcField # NoName
                             THEN ValueFieldByName(srcVal, mm.srcField)
                             ELSE Invalid], LAMBDA res :
        IF Len(res.err) > 0
        THEN Fail(cfg, Wrap("resolver error", mm.destField, res.err), destV)
        ELSE IF ~res.rv.valid THEN Ok(cfg, destV)
        ELSE With(IF mm.converter # ""
                  THEN ApplyFieldConverter(mm.converter, res.rv)
                  ELSE [err |-> NoErr, rv |-> res.rv], LAMBDA conv :
          IF Len(conv.err) > 0
          THEN Fail(cfg, Wrap("converter error", mm.destField, conv.err), destV)
          ELSE [assignValue(cfg, conv.rv, destField.t, destField.v)
                EXCEPT !.v = SetByIndex(destT, destV, mm.destFieldIdx, 1, @)])))

assignValue(cfg, srcVal0, destT, destV) ==
    With(derefValue(srcVal0), LAMBDA srcVal :
      IF ~srcVal.valid THEN AbsentSource(cfg, destT, destV)
      ELSE IF Kind(destT) = "Ptr"
      THEN LET inner == IF destV = <<>> THEN Zero(Elem(destT)) ELSE destV[1]
           IN [assignValue(cfg, srcVal, Elem(destT), inner) EXCEPT !.v = <<@>>]
      ELSE LET key == <<srcVal.t, destT>>
           IN IF key \in DOMAIN cfg.converters
              THEN LET c == ApplyConverter(cfg.converters[key], srcVal.v)
                   IN IF Len(c.err) > 0 THEN Fail(cfg, c.err, destV) ELSE Ok(cfg, c.v)
              ELSE IF AssignableTo(srcVal.t, destT) THEN Ok(cfg, srcVal.v)
              ELSE IF ConvertibleTo(srcVal.t, destT)
                   THEN Ok(cfg, Convert(srcVal.t, destT, srcVal.v))
              ELSE IF Kind(srcVal.t) = "Struct" /\ Kind(destT) = "Struct"
                   THEN mapValue(cfg, srcVal, destT, destV)
              ELSE IF Kind(srcVal.t) = "Slice" /\ Kind(destT) = "Slice"
                   THEN mapSlice(cfg, srcVal, destT, destV)
              ELSE Fail(cfg, Err("cannot assign value"), destV))

\* fmt.Sprintf("error mapping slice element at index %d", i), i counted from 0
SliceElementMessage(i) ==
    CASE i = 0 -> "error mapping slice element at index 0"
      [] i = 1 -> "error mapping slice element at index 1"
      [] OTHER -> "error mapping slice element at index 2"

\* the element loop of mapSlice from element i on (i counted from 1); elems
\* is the part of destSlice filled so far
SliceFrom(cfg, srcVal, destT, elems, i) ==
    IF i > Len(srcVal.v.elems) THEN Ok(cfg, MakeSlice(elems))
    ELSE LET isPtr == Kind(Elem(destT)) = "Ptr"
             destElemT == IF isPtr THEN Elem(Elem(destT)) ELSE Elem(destT)
         IN With(mapValue(cfg, RV(Elem(srcVal.t), srcVal.v.elems[i], TRUE),
                          destElemT, Zero(destElemT)), LAMBDA r :
              IF Len(r.err) > 0
              THEN Fail(r.cfg, Wrap(SliceElementMessage(i - 1), NoName, r.err), elems)
              ELSE SliceFrom(r.cfg, srcVal, destT,
                             Append(elems, IF isPtr THEN <<r.v>> ELSE r.v), i + 1))

\* mapSlice: reflect.MakeSlice panics when the destination is not a slice
mapSlice(cfg, srcVal, destT, destV) ==
    IF srcVal.v.nil
    THEN IF cfg.allowNilColl THEN Ok(cfg, Zero(destT))
         ELSE IF Kind(destT) # "Slice" THEN Fail(cfg, Panic, destV)
         ELSE Ok(cfg, MakeSlice(<<>>))
    ELSE IF Kind(destT) # "Slice" THEN Fail(cfg, Panic, destV)
    ELSE With(SliceFrom(cfg, srcVal, destT, <<>>, 1), LAMBDA r :
           IF Len(r.err) > 0 THEN Fail(r.cfg, r.err, destV) ELSE r)

\* the entry loop of mapMap over the source keys not yet taken (MapRange
\* yields them in no fixed order); entries is the part of destMap filled so
\* far
MapEntriesFrom(cfg, srcVal, destT, keys, entries) ==
    IF keys = {} THEN Ok(cfg, MakeMap(entries))
    ELSE With(CHOOSE k \in keys : TRUE, LAMBDA srcKey :
           IF ~AssignableTo(Key(srcVal.t), Key(destT)) /\ ~ConvertibleTo(Key(srcVal.t), Key(destT))
           THEN Fail(cfg, Err("cannot convert map key"), entries)
           ELSE With(assignValue(cfg, RV(Elem(srcVal.t), srcVal.v.entries[srcKey], FALSE),
                                 Elem(destT), Zero(Elem(destT))), LAMBDA r :
                  IF Len(r.err) > 0 THEN Fail(r.cfg, r.err, entries)
                  ELSE MapEntriesFrom(r.cfg, srcVal, destT, keys \ {srcKey},
                         Put(entries, Convert(Key(srcVal.t), Key(destT), srcKey), r.v))))

\* mapMap: reflect.MakeMap panics when the destination is not a map
mapMap(cfg, srcVal, destT, destV) ==
    IF srcVal.v.nil
    THEN IF cfg.allowNilColl THEN Ok(cfg, Zero(destT))
         ELSE IF Kind(destT) # "Map" THEN Fail(cfg, Panic, destV)
         ELSE Ok(cfg, MakeMap(EmptyMap))
    ELSE IF Kind(destT) # "Map" THEN Fail(cfg, Panic, destV)
    ELSE With(MapEntriesFrom(cfg, srcVal, destT, DOMAIN srcVal.v.entries, EmptyMap),
              LAMBDA r : IF Len(r.err) > 0 THEN Fail(r.cfg, r.err, destV) ELSE r)

\* ------------------------------------------------------------------------
\* Optimized execution
\* ------------------------------------------------------------------------
FieldAtOffset(t, off) == CHOOSE i \in 1..Len(StructFields(t)) : Offset(t, i) = off

\* a raw copy that writes nothing
unsafeCopyFieldNoWrite(srcVal, destT, destV, srcOffset, destOffset, size) == destV

\* unsafeCopyField: size bytes at srcOffset of the source record are written
\* at destOffset of the destination record; the guard of mapMemberUnsafe
\* makes the two fields one primitive type, so the bytes are a whole field
unsafeCopyField(srcVal, destT, destV, srcOffset, destOffset, size) ==
    [destV EXCEPT ![FieldAtOffset(destT, destOffset)] = srcVal.v[FieldAtOffset(srcVal.t, srcOffset)]]

RECURSIVE SpecializedFrom(_, _, _, _, _, _)
\* a compiled field copy that does not look at the ignore flag
SpecializedFromNoIgnore(members, srcVal, destT, destV, n, i) ==
    IF i > n THEN [err |-> NoErr, v |-> destV]
    ELSE LET mm == members[i]
             srcType == StructFields(srcVal.t)[mm.srcFieldIdx[1]].type
             destType == StructFields(destT)[mm.destFieldIdx[1]].type
         IN IF ~AssignableTo(srcType, destType) THEN [err |-> Panic, v |-> destV]
            ELSE SpecializedFrom(members, srcVal, destT,
                    [destV EXCEPT ![mm.destFieldIdx[1]] = srcVal.v[mm.srcFieldIdx[1]]],
                    n, i + 1)

\* the closure built by compileSpecializedMapper, from member i on;
\* reflect.Value.Set panics unless the source type is assignable
SpecializedFrom(members, srcVal, destT, destV, n, i) ==
    IF i > n THEN [err |-> NoErr, v |-> destV]
    ELSE LET mm == members[i]
         IN IF mm.ignore THEN SpecializedFrom(members, srcVal, destT, destV, n, i + 1)
            ELSE LET srcType == StructFields(srcVal.t)[mm.srcFieldIdx[1]].type
                     destType == StructFields(destT)[mm.destFieldIdx[1]].type
                 IN IF ~AssignableTo(srcType, destType) THEN [err |-> Panic, v |-> destV]
                    ELSE SpecializedFrom(members, srcVal, destT,
                            [destV EXCEPT ![mm.destFieldIdx[1]] = srcVal.v[mm.srcFieldIdx[1]]],
                            n, i + 1)

mapMemberUnsafe(cfg, srcVal, destT, destV, mm, opt) ==
    IF mm.ignore THEN Ok(cfg, destV)
    ELSE IF opt.directAssign /\ opt.isPrimitive /\ Len(mm.srcFieldIdx) = 1 /\ srcVal.addr
    THEN Ok(cfg, unsafeCopyField(srcVal, destT, destV, opt.srcOffset, opt.destOffset,
                                 opt.fieldSize))
    ELSE mapMember(cfg, srcVal, destT, destV, mm)

UnsafeMembersFrom(cfg, srcVal, destT, destV, members, opts, i) ==
    IF i > Len(opts) THEN Ok(cfg, destV)
    ELSE Then(mapMemberUnsafe(cfg, srcVal, destT, destV, members[i], opts[i]),
              LAMBDA r : UnsafeMembersFrom(r.cfg, srcVal, destT, r.v, members, opts, i + 1))

mapStructOptimized(cfg, srcVal, destT, destV, tm, optMap) ==
    LET b == RunHooks(tm.beforeMap, 1, srcVal, destT, destV)
        hasHooks == Len(tm.beforeMap) > 0 \/ Len(tm.afterMap) > 0 \/ tm.customMapper # ""
    IN IF Len(b.err) > 0 THEN Fail(cfg, b.err, b.v)
       ELSE IF HasCustomMapper(tm)
       THEN LET c == ApplyCustom(tm.customMapper, srcVal, destT, b.v)
            IN [err |-> c.err, v |-> c.v, cfg |-> cfg]
       ELSE Then(IF optMap.specializedFn /\ ~hasHooks
                 THEN LET f == SpecializedFrom(tm.memberMaps, srcVal, destT, b.v,
                                               Len(optMap.optimizedMembers), 1)
                      IN [err |-> f.err, v |-> f.v, cfg |-> cfg]
                 ELSE IF cfg.useUnsafe
                 THEN UnsafeMembersFrom(cfg, srcVal, destT, b.v, tm.memberMaps,
                                        optMap.optimizedMembers, 1)
                 ELSE MembersFrom(cfg, srcVal, destT, b.v, tm.memberMaps, 1),
                 LAMBDA m : LET a == RunHooks(tm.afterMap, 1, srcVal, destT, m.v)
                            IN [err |-> a.err, v |-> a.v, cfg |-> m.cfg])

\* ------------------------------------------------------------------------
\* State
\* ------------------------------------------------------------------------
VARIABLES
    optLevel,        \* MapperConfiguration.optLevel
    useUnsafe,       \* MapperConfiguration.useUnsafe
    allowNilColl,    \* MapperConfiguration.allowNilColl
    typeMaps,        \* MapperConfiguration.typeMaps: key -> TypeMap
    optimizedMaps,   \* MapperConfiguration.optimizedMaps: key -> TypeMapOptimized
    typeCache,       \* typeCache.cache: type -> typeInfo
    converters,      \* MapperConfiguration.converters: key -> converter
    builders,        \* keys whose registered TypeMap a TypeMapBuilder refers to
    memberCalls,     \* number of ForMemberByName calls made
    ignored,         \* <<key, field>> pairs a builder has applied Ignore() to
    call,            \* the most recent mapping call and its outcome
    pc,              \* goroutine -> the statement it is at
    local,           \* goroutine -> its local variables
    cacheMu,         \* typeCache.mu
    configMu,        \* MapperConfiguration.mu
    events,          \* the objects built so far (typeInfo, TypeMap), in order
    insts            \* cache or registry key -> the event that built its entry

vars == <<optLevel, useUnsafe, allowNilColl, typeMaps, optimizedMaps, typeCache,
          converters, builders, memberCalls, ignored, call,
          pc, local, cacheMu, configMu, events, insts>>

threadVars == <<pc, local, cacheMu, configMu, events, insts>>

cfgVars == <<optLevel, useUnsafe, allowNilColl>>

\* bound of the exploration: ForMemberByName calls per run
MaxMemberCalls == 1

Cfg ==
    [optLevel |-> optLevel, useUnsafe |-> useUnsafe, allowNilColl |-> allowNilColl,
     typeMaps |-> typeMaps, optimizedMaps |-> optimizedMaps, typeCache |-> typeCache,
     converters |-> converters]

\* ------------------------------------------------------------------------
\* Construction: New and NewWithConfig
\* ------------------------------------------------------------------------
Levels == {OptimizationNone, OptimizationPooled, OptimizationUnsafe, OptimizationSpecialized}

ConfigOptions ==
    {[opt |-> "WithOptimizationLevel", level |-> l] : l \in Levels}
    \cup {[opt |-> o, level |-> 0] :
            o \in {"WithAllowNullCollections", "WithUnsafeOptimizations",
                   "WithPooling", "WithSpecializedMappers"}}

ApplyConfigOption(c, o) ==
    CASE o.opt = "WithAllowNullCollections" -> [c EXCEPT !.allowNilColl = TRUE]
      [] o.opt = "WithOptimizationLevel" ->
           [c EXCEPT !.optLevel = o.level,
                     !.useUnsafe = IF o.level >= OptimizationUnsafe THEN TRUE ELSE c.useUnsafe]
      [] o.opt = "WithUnsafeOptimizations" ->
           [c EXCEPT !.useUnsafe = TRUE,
                     !.optLevel = IF c.optLevel < OptimizationUnsafe
                                  THEN OptimizationUnsafe ELSE c.optLevel]
      [] o.opt = "WithPooling" ->
           [c EXCEPT !.optLevel = IF c.optLevel < OptimizationPooled
                                  THEN OptimizationPooled ELSE c.optLevel]
      [] o.opt = "WithSpecializedMappers" ->
           [c EXCEPT !.optLevel = OptimizationSpecialized, !.useUnsafe = TRUE]

New == [optLevel |-> OptimizationNone, useUnsafe |-> FALSE, allowNilColl |-> FALSE]

RECURSIVE ApplyOptions(_, _, _)
ApplyOptions(c, opts, i) ==
    IF i > Len(opts) THEN c ELSE ApplyOptions(ApplyConfigOption(c, opts[i]), opts, i + 1)

NewWithConfig(opts) == ApplyOptions(New, opts, 1)

NoCall ==
    [op |-> "none", key |-> <<"", "">>, src |-> <<>>, byPtr |-> FALSE,
     destPre |-> <<>>, dest |-> <<>>, err |-> NoErr]

\* bound of the exploration: goroutines using one mapper
NThreads == 2
Threads == 1..NThreads

\* sync.RWMutex: the goroutine holding the write lock (0: none) and the
\* goroutines holding a read lock
Unlocked == [writer |-> 0, readers |-> {}]
CanRLock(mu) == mu.writer = 0
CanLock(mu) == mu.writer = 0 /\ mu.readers = {}

NoLocals == [at |-> "none"]

\* no goroutine has started, no lock is held
ThreadInit ==
    /\ pc = [th \in Threads |-> "idle"]
    /\ local = [th \in Threads |-> NoLocals]
    /\ cacheMu = Unlocked
    /\ configMu = Unlocked
    /\ events = <<>>
    /\ insts = EmptyMap

Init ==
    /\ ThreadInit
    /\ \E l \in Levels :
         LET c == NewWithConfig(<<[opt |-> "WithOptimizationLevel", level |-> l]>>)
         IN /\ optLevel = c.optLevel
            /\ useUnsafe = c.useUnsafe
            /\ allowNilColl = c.allowNilColl
    /\ typeMaps = EmptyMap
    /\ optimizedMaps = EmptyMap
    /\ typeCache = EmptyMap
    /\ converters = EmptyMap
    /\ builders = {}
    /\ memberCalls = 0
    /\ ignored = {}
    /\ call = NoCall

\* ------------------------------------------------------------------------
\* Configuration calls
\* ------------------------------------------------------------------------
Idle == call.op = "none"

\* a CreateMap that registers the reverse pair as well
CreateMapBothWays(key) ==
    LET a == autoConfigureMembers(key[1], key[2], typeCache)
        r == autoConfigureMembers(key[2], key[1], a.cache)
    IN /\ Idle
       /\ typeMaps' = Put(Put(typeMaps, key, NewTypeMap(key[1], key[2], a.memberMaps)),
                          <<key[2], key[1]>>, NewTypeMap(key[2], key[1], r.memberMaps))
       /\ typeCache' = r.cache
       /\ optimizedMaps' = optimizedMaps
       /\ builders' = builders \cup {key}
       /\ UNCHANGED <<threadVars, cfgVars, converters, memberCalls, ignored, call>>

CreateMap(key) ==
    LET a == autoConfigureMembers(key[1], key[2], typeCache)
        tm == NewTypeMap(key[1], key[2], a.memberMaps)
    IN /\ Idle
       /\ typeMaps' = Put(typeMaps, key, tm)
       /\ typeCache' = a.cache
       /\ optimizedMaps' = IF optLevel > OptimizationNone
                           THEN Put(optimizedMaps, key, compileOptimizedTypeMap(tm, optLevel))
                           ELSE optimizedMaps
       /\ builders' = builders \cup {key}
       /\ UNCHANGED <<threadVars, cfgVars, converters, memberCalls, ignored, call>>

\* TypeMapBuilder.ReverseMap: CreateMap[TDest, TSrc] on the builder's mapper
ReverseMap(key) ==
    /\ key \in builders
    /\ CreateMap(<<key[2], key[1]>>)

Opt(o, name, fn) == [opt |-> o, name |-> name, fn |-> fn]

\* MapFrom, MapFromFunc, Ignore, Condition, UseConverter
ApplyMemberOption(mm, o) ==
    CASE o.opt = "MapFrom" -> [mm EXCEPT !.srcField = o.name]
      [] o.opt = "MapFromFunc" -> [mm EXCEPT !.resolver = o.fn]
      [] o.opt = "Ignore" -> [mm EXCEPT !.ignore = TRUE]
      [] o.opt = "Condition" -> [mm EXCEPT !.condition = o.fn]
      [] o.opt = "UseConverter" -> [mm EXCEPT !.converter = o.fn]

\* index of the first member map for a destination field, 0 if there is none
MemberIndex(memberMaps, name) ==
    LET is == {i \in 1..Len(memberMaps) : memberMaps[i].destField = name}
    IN IF is = {} THEN 0 ELSE CHOOSE i \in is : \A j \in is : i <= j

ForMemberByName(key, destMemberName, o) ==
    /\ Idle
    /\ key \in builders
    /\ memberCalls < MaxMemberCalls
    /\ LET tm == typeMaps[key]
           i == MemberIndex(tm.memberMaps, destMemberName)
           d == getTypeInfo(typeCache, key[2])
           created == i = 0 /\ HasField(d.info, destMemberName)
       IN /\ typeMaps' =
               IF i > 0
               THEN Put(typeMaps, key,
                      [tm EXCEPT !.memberMaps[i] = ApplyMemberOption(tm.memberMaps[i], o)])
               ELSE IF created
               THEN Put(typeMaps, key,
                      [tm EXCEPT !.memberMaps = Append(tm.memberMaps,
                          ApplyMemberOption(
                            NewMemberMap(destMemberName,
                                         FieldByName(d.info, destMemberName).index), o))])
               ELSE typeMaps
          /\ typeCache' = IF i > 0 THEN typeCache ELSE d.cache
          /\ ignored' = IF o.opt = "Ignore" /\ (i > 0 \/ created)
                        THEN ignored \cup {<<key, destMemberName>>}
                        ELSE ignored
    /\ memberCalls' = memberCalls + 1
    /\ UNCHANGED <<threadVars, cfgVars, optimizedMaps, converters, builders, call>>

\* bound of the exploration: hooks registered per list
MaxHooks == 2

BeforeMap(key, h) ==
    /\ Idle
    /\ key \in builders
    /\ Len(typeMaps[key].beforeMap) < MaxHooks
    /\ typeMaps' = [typeMaps EXCEPT ![key].beforeMap = Append(@, h)]
    /\ UNCHANGED <<threadVars, cfgVars, optimizedMaps, typeCache, converters, builders, memberCalls,
                   ignored, call>>

AfterMap(key, h) ==
    /\ Idle
    /\ key \in builders
    /\ Len(typeMaps[key].afterMap) < MaxHooks
    /\ typeMaps' = [typeMaps EXCEPT ![key].afterMap = Append(@, h)]
    /\ UNCHANGED <<threadVars, cfgVars, optimizedMaps, typeCache, converters, builders, memberCalls,
                   ignored, call>>

CustomMap(key, c) ==
    /\ Idle
    /\ key \in builders
    /\ typeMaps' = [typeMaps EXCEPT ![key].customMapper = c]
    /\ UNCHANGED <<threadVars, cfgVars, optimizedMaps, typeCache, converters, builders, memberCalls,
                   ignored, call>>

ConvertUsing(c) ==
    /\ Idle
    /\ converters' = Put(converters, ConverterKey(c), c)
    /\ UNCHANGED <<threadVars, cfgVars, typeMaps, optimizedMaps, typeCache, builders, memberCalls,
                   ignored, call>>

\* ------------------------------------------------------------------------
\* Mapping calls
\* ------------------------------------------------------------------------
\* reflect.ValueOf(src) for a record passed by value or by pointer
ValueOf(t, v, byPtr) == IF byPtr THEN RV(PtrTo(t), <<v>>, FALSE) ELSE RV(t, v, FALSE)

Finish(op, key, src, byPtr, destPre, r) ==
    /\ typeMaps' = r.cfg.typeMaps
    /\ optimizedMaps' = r.cfg.optimizedMaps
    /\ typeCache' = r.cfg.typeCache
    /\ call' = [op |-> op, key |-> key, src |-> src, byPtr |-> byPtr,
                destPre |-> destPre, dest |-> r.v, err |-> r.err]
    /\ UNCHANGED <<threadVars, cfgVars, converters, builders, memberCalls, ignored>>

Map(key, src, byPtr) ==
    /\ Idle
    /\ Finish("Map", key, src, byPtr, Zero(key[2]),
              mapValue(Cfg, ValueOf(key[1], src, byPtr), key[2], Zero(key[2])))

MapTo(key, src, byPtr, dest) ==
    /\ Idle
    /\ Finish("MapTo", key, src, byPtr, dest,
              mapValue(Cfg, ValueOf(key[1], src, byPtr), key[2], dest))

\* fmt.Sprintf("error mapping element at index %d", i), i counted from 0
ElementMessage(i) ==
    CASE i = 0 -> "error mapping element at index 0"
      [] i = 1 -> "error mapping element at index 1"
      [] OTHER -> "error mapping element at index 2"

RECURSIVE MapSliceFrom(_, _, _, _, _)
\* a loop that leaves a failing element at its zero value and goes on
MapSliceFromSkipping(cfg, key, src, result, i) ==
    IF i > Len(src.elems) THEN Ok(cfg, MakeSlice(result))
    ELSE With(mapValue(cfg, RV(key[1], src.elems[i], FALSE), key[2], Zero(key[2])),
              LAMBDA r :
           MapSliceFrom(r.cfg, key, src,
                        Append(result, IF Len(r.err) > 0 THEN Zero(key[2]) ELSE r.v), i + 1))

\* the loop of MapSlice from element i on (i counted from 1): each element
\* goes through Map[TDest]; an element's error ends the call with a nil result
MapSliceFrom(cfg, key, src, result, i) ==
    IF i > Len(src.elems) THEN Ok(cfg, MakeSlice(result))
    ELSE With(mapValue(cfg, RV(key[1], src.elems[i], FALSE), key[2], Zero(key[2])),
              LAMBDA r :
           IF Len(r.err) > 0
           THEN Fail(r.cfg, Wrap(ElementMessage(i - 1), NoName, r.err), NilSlice)
           ELSE MapSliceFrom(r.cfg, key, src, Append(result, r.v), i + 1))

\* a MapSlice that answers a nil source with an empty slice on every mapper
MapSliceResultNoPolicy(cfg, key, src) ==
    IF src.nil THEN Ok(cfg, MakeSlice(<<>>))
    ELSE MapSliceFrom(cfg, key, src, <<>>, 1)

\* the body of MapSlice[TSrc, TDest]: the result slice, the error, the
\* configuration after the call
MapSliceResult(cfg, key, src) ==
    IF src.nil
    THEN IF cfg.allowNilColl THEN Ok(cfg, NilSlice) ELSE Ok(cfg, MakeSlice(<<>>))
    ELSE MapSliceFrom(cfg, key, src, <<>>, 1)

MapSlice(key, src) ==
    /\ Idle
    /\ Finish("MapSlice", key, src, FALSE, NilSlice, MapSliceResult(Cfg, key, src))

\* MapTo with an absent source: the untyped nil (reflect.ValueOf(nil) is the
\* zero Value) or a typed nil pointer
MapToNil(key, typed, dest) ==
    /\ Idle
    /\ Finish("MapToNil", key, <<>>, typed, dest,
              mapValue(Cfg, IF typed THEN RV(PtrTo(key[1]), <<>>, FALSE) ELSE Invalid,
                       key[2], dest))

\* the call returns to its caller; a panic does not return
Return ==
    /\ call.op # "none"
    /\ ~IsPanic(call.err)
    /\ call' = NoCall
    /\ UNCHANGED <<threadVars, cfgVars, typeMaps, optimizedMaps, typeCache, converters, builders,
                   memberCalls, ignored>>

\* ------------------------------------------------------------------------
\* Goroutines.  A call made while other goroutines use the mapper is a
\* sequence of steps, one per statement that takes or releases a lock or
\* reads or writes shared data.
\* ------------------------------------------------------------------------
Goto(th, at) == pc' = [pc EXCEPT ![th] = at]
Assign(th, new) == local' = [local EXCEPT ![th] = new]

\* what a step of getTypeInfo leaves alone besides the cache and its lock
CacheFrame ==
    UNCHANGED <<cfgVars, typeMaps, optimizedMaps, converters, builders, memberCalls,
                ignored, call, configMu>>

\* part_000:39-43: unwrap one pointer level, tc.mu.RLock()
getTypeInfoRLock(th, t0) ==
    /\ pc[th] = "idle"
    /\ CanRLock(cacheMu)
    /\ cacheMu' = [cacheMu EXCEPT !.readers = @ \cup {th}]
    /\ Assign(th, [at |-> "getTypeInfo",
                   t |-> IF Kind(t0) = "Ptr" THEN Elem(t0) ELSE t0,
                   ok |-> FALSE, info |-> <<>>, inst |-> 0, returned |-> FALSE])
    /\ Goto(th, "gti_read")
    /\ UNCHANGED <<typeCache, events, insts>>
    /\ CacheFrame

\* part_000:44: info, ok := tc.cache[t]
getTypeInfoRead(th) ==
    /\ pc[th] = "gti_read"
    /\ LET t == local[th].t
       IN Assign(th, IF t \in DOMAIN typeCache
                     THEN [local[th] EXCEPT !.ok = TRUE, !.info = typeCache[t],
                                            !.inst = insts[t]]
                     ELSE [local[th] EXCEPT !.ok = FALSE])
    /\ Goto(th, "gti_runlock")
    /\ UNCHANGED <<typeCache, cacheMu, events, insts>>
    /\ CacheFrame

\* part_000:45-48: tc.mu.RUnlock(); if ok { return info }
getTypeInfoRUnlock(th) ==
    /\ pc[th] = "gti_runlock"
    /\ cacheMu' = [cacheMu EXCEPT !.readers = @ \ {th}]
    /\ IF local[th].ok
       THEN Assign(th, [local[th] EXCEPT !.returned = TRUE]) /\ Goto(th, "idle")
       ELSE UNCHANGED local /\ Goto(th, "gti_lock")
    /\ UNCHANGED <<typeCache, events, insts>>
    /\ CacheFrame

\* part_000:50: tc.mu.Lock()
getTypeInfoLock(th) ==
    /\ pc[th] = "gti_lock"
    /\ CanLock(cacheMu)
    /\ cacheMu' = [cacheMu EXCEPT !.writer = th]
    /\ Goto(th, "gti_check")
    /\ UNCHANGED <<local, typeCache, events, insts>>
    /\ CacheFrame

\* a second look that never finds the entry
getTypeInfoNoCheck(th) ==
    /\ pc[th] = "gti_check"
    /\ Goto(th, "gti_build")
    /\ UNCHANGED <<local, typeCache, cacheMu, events, insts>>
    /\ CacheFrame

\* part_000:54-56: if info, ok = tc.cache[t]; ok { return info }
getTypeInfoCheck(th) ==
    /\ pc[th] = "gti_check"
    /\ LET t == local[th].t
       IN IF t \in DOMAIN typeCache
          THEN /\ Assign(th, [local[th] EXCEPT !.ok = TRUE, !.info = typeCache[t],
                                               !.inst = insts[t]])
               /\ Goto(th, "gti_unlock")
          ELSE UNCHANGED local /\ Goto(th, "gti_build")
    /\ UNCHANGED <<typeCache, cacheMu, events, insts>>
    /\ CacheFrame

\* part_000:58: info = tc.buildTypeInfo(t)
getTypeInfoBuild(th) ==
    /\ pc[th] = "gti_build"
    /\ events' = Append(events, [kind |-> "typeInfo", key |-> local[th].t, by |-> th])
    /\ Assign(th, [local[th] EXCEPT !.info = buildTypeInfo(local[th].t),
                                    !.inst = Len(events) + 1])
    /\ Goto(th, "gti_store")
    /\ UNCHANGED <<typeCache, cacheMu, insts>>
    /\ CacheFrame

\* part_000:59: tc.cache[t] = info
getTypeInfoStore(th) ==
    /\ pc[th] = "gti_store"
    /\ typeCache' = Put(typeCache, local[th].t, local[th].info)
    /\ insts' = Put(insts, local[th].t, local[th].inst)
    /\ Goto(th, "gti_unlock")
    /\ UNCHANGED <<local, cacheMu, events>>
    /\ CacheFrame

\* part_000:51,60: return info; the deferred tc.mu.Unlock()
getTypeInfoUnlock(th) ==
    /\ pc[th] = "gti_unlock"
    /\ cacheMu' = [cacheMu EXCEPT !.writer = 0]
    /\ Assign(th, [local[th] EXCEPT !.returned = TRUE])
    /\ Goto(th, "idle")
    /\ UNCHANGED <<typeCache, events, insts>>
    /\ CacheFrame

\* what a step of a mapping call leaves alone besides the registry, the
\* cache and the registry's lock
RegistryFrame ==
    UNCHANGED <<cfgVars, converters, builders, memberCalls, ignored, call, cacheMu>>

\* engine.go:33-37, 75-110: Map[TDest](m, src) for a record src enters
\* mapValue; the converter look-up under RLock finds none
mapValueBegin(th, key, src) ==
    /\ pc[th] = "idle"
    /\ CanRLock(configMu)
    /\ key \notin DOMAIN converters
    /\ Assign(th, [at |-> "Map", key |-> key, src |-> src, dest |-> Zero(key[2]),
                   err |-> NoErr, exists |-> FALSE, tm |-> 0, hasOpt |-> FALSE,
                   optMap |-> <<>>, optLevel |-> 0, rules |-> <<>>,
                   returned |-> FALSE])
    /\ Goto(th, "ms_rlock")
    /\ UNCHANGED <<typeMaps, optimizedMaps, typeCache, configMu, events, insts>>
    /\ RegistryFrame

\* engine.go:142: m.config.mu.RLock()
mapStructRLock(th) ==
    /\ pc[th] = "ms_rlock"
    /\ CanRLock(configMu)
    /\ configMu' = [configMu EXCEPT !.readers = @ \cup {th}]
    /\ Goto(th, "ms_read")
    /\ UNCHANGED <<local, typeMaps, optimizedMaps, typeCache, events, insts>>
    /\ RegistryFrame

\* engine.go:143-145: typeMap, exists; optMap; optLevel
mapStructRead(th) ==
    /\ pc[th] = "ms_read"
    /\ LET key == local[th].key
           exists == key \in DOMAIN typeMaps
           hasOpt == key \in DOMAIN optimizedMaps
       IN Assign(th, [local[th] EXCEPT
                        !.exists = exists,
                        !.tm = IF exists THEN insts[key] ELSE 0,
                        !.hasOpt = hasOpt,
                        !.optMap = IF hasOpt THEN optimizedMaps[key] ELSE <<>>,
                        !.optLevel = optLevel])
    /\ Goto(th, "ms_runlock")
    /\ UNCHANGED <<typeMaps, optimizedMaps, typeCache, configMu, events, insts>>
    /\ RegistryFrame

\* engine.go:146-151: m.config.mu.RUnlock(); if !exists { autoCreateTypeMap }
mapStructRUnlock(th) ==
    /\ pc[th] = "ms_runlock"
    /\ configMu' = [configMu EXCEPT !.readers = @ \ {th}]
    /\ Goto(th, IF local[th].exists THEN "ms_exec" ELSE "ac_lock")
    /\ UNCHANGED <<local, typeMaps, optimizedMaps, typeCache, events, insts>>
    /\ RegistryFrame

\* engine.go:412: m.config.mu.Lock()
autoCreateLock(th) ==
    /\ pc[th] = "ac_lock"
    /\ CanLock(configMu)
    /\ configMu' = [configMu EXCEPT !.writer = th]
    /\ Goto(th, "ac_check")
    /\ UNCHANGED <<local, typeMaps, optimizedMaps, typeCache, events, insts>>
    /\ RegistryFrame

\* a second look that never finds the mapping
autoCreateNoCheck(th) ==
    /\ pc[th] = "ac_check"
    /\ Goto(th, "ac_create")
    /\ UNCHANGED <<local, typeMaps, optimizedMaps, typeCache, configMu, events, insts>>
    /\ RegistryFrame

\* engine.go:415-418: double-check after acquiring lock
autoCreateCheck(th) ==
    /\ pc[th] = "ac_check"
    /\ IF local[th].key \in DOMAIN typeMaps
       THEN /\ Assign(th, [local[th] EXCEPT !.tm = insts[local[th].key]])
            /\ Goto(th, "ac_unlock")
       ELSE UNCHANGED local /\ Goto(th, "ac_create")
    /\ UNCHANGED <<typeMaps, optimizedMaps, typeCache, configMu, events, insts>>
    /\ RegistryFrame

\* engine.go:420-434: the new TypeMap is auto-configured, stored and
\* compiled.  The goroutine holds the registry's write lock, and in these
\* programs only holders of it use the type cache.
autoCreateStore(th) ==
    /\ pc[th] = "ac_create"
    /\ LET key == local[th].key
           a == autoConfigureMembers(key[1], key[2], typeCache)
           tm == NewTypeMap(key[1], key[2], a.memberMaps)
       IN /\ typeMaps' = Put(typeMaps, key, tm)
          /\ typeCache' = a.cache
          /\ optimizedMaps' = IF optLevel > OptimizationNone
                              THEN Put(optimizedMaps, key,
                                       compileOptimizedTypeMap(tm, optLevel))
                              ELSE optimizedMaps
          /\ events' = Append(events, [kind |-> "TypeMap", key |-> key, by |-> th])
          /\ insts' = Put(insts, key, Len(events) + 1)
          /\ Assign(th, [local[th] EXCEPT !.tm = Len(events) + 1])
    /\ Goto(th, "ac_unlock")
    /\ UNCHANGED configMu
    /\ RegistryFrame

\* engine.go:413,436: return tm; the deferred m.config.mu.Unlock()
autoCreateUnlock(th) ==
    /\ pc[th] = "ac_unlock"
    /\ configMu' = [configMu EXCEPT !.writer = 0]
    /\ Goto(th, "ms_exec")
    /\ UNCHANGED <<local, typeMaps, optimizedMaps, typeCache, events, insts>>
    /\ RegistryFrame

\* engine.go:153-159: the optimized path with the optMap read under the
\* lock, else the standard path with typeMap; Map returns.  The member
\* loop reads the rules of the TypeMap as they are now (rules).
mapStructExec(th) ==
    /\ pc[th] = "ms_exec"
    /\ LET l == local[th]
           srcVal == RV(l.key[1], l.src, FALSE)
           r == IF l.optLevel > OptimizationNone /\ l.hasOpt /\ l.optMap.compiled
                THEN mapStructOptimized(Cfg, srcVal, l.key[2], l.dest,
                                        typeMaps[l.key], l.optMap)
                ELSE mapStructStandard(Cfg, srcVal, l.key[2], l.dest, typeMaps[l.key])
       IN Assign(th, [l EXCEPT !.dest = r.v, !.err = r.err, !.returned = TRUE,
                               !.rules = typeMaps[l.key].memberMaps])
    /\ Goto(th, "idle")
    /\ UNCHANGED <<typeMaps, optimizedMaps, typeCache, configMu, events, insts>>
    /\ RegistryFrame

\* what a step of ForMemberByName leaves alone: it takes no lock
BuilderFrame ==
    UNCHANGED <<cfgVars, optimizedMaps, converters, builders, memberCalls, ignored, call,
                cacheMu, configMu, events, insts>>

\* part_002:177-195: the search for the member map of destMemberName; the
\* program makes one such call while other goroutines map
ForMemberFind(th, key, destMemberName, opts) ==
    /\ pc[th] = "idle"
    /\ key \in builders
    /\ Len(opts) > 0
    /\ \A t \in Threads : local[t].at # "ForMember"
    /\ LET i == MemberIndex(typeMaps[key].memberMaps, destMemberName)
       IN /\ Assign(th, [at |-> "ForMember", key |-> key, name |-> destMemberName,
                         opts |-> opts, i |-> i, k |-> 1,
                         before |-> typeMaps[key].memberMaps, returned |-> FALSE])
          /\ Goto(th, IF i > 0 THEN "fm_opt" ELSE "fm_append")
    /\ UNCHANGED <<typeMaps, typeCache>>
    /\ BuilderFrame

\* part_002:197-206: no member map yet: a new one, holding only the
\* destination field, is appended to the TypeMap
ForMemberAppend(th) ==
    /\ pc[th] = "fm_append"
    /\ CanRLock(cacheMu)
    /\ LET l == local[th]
           d == getTypeInfo(typeCache, l.key[2])
       IN /\ typeCache' = d.cache
          /\ IF HasField(d.info, l.name)
             THEN /\ typeMaps' = [typeMaps EXCEPT ![l.key].memberMaps =
                                    Append(@, NewMemberMap(l.name,
                                               FieldByName(d.info, l.name).index))]
                  /\ Assign(th, [l EXCEPT !.i = Len(typeMaps[l.key].memberMaps) + 1])
                  /\ Goto(th, "fm_opt")
             ELSE /\ UNCHANGED typeMaps
                  /\ Assign(th, [l EXCEPT !.returned = TRUE])
                  /\ Goto(th, "idle")
    /\ BuilderFrame

\* part_002:208-214: opt(mm) for the next option; after the last, return b
ForMemberOption(th) ==
    /\ pc[th] = "fm_opt"
    /\ LET l == local[th]
       IN /\ typeMaps' = [typeMaps EXCEPT ![l.key].memberMaps[l.i] =
                             ApplyMemberOption(@, l.opts[l.k])]
          /\ Assign(th, [l EXCEPT !.k = l.k + 1, !.returned = (l.k = Len(l.opts))])
          /\ Goto(th, IF l.k = Len(l.opts) THEN "idle" ELSE "fm_opt")
    /\ UNCHANGED typeCache
    /\ BuilderFrame

\* ------------------------------------------------------------------------
\* Locks and callbacks.  Goroutines call Map, CreateMap, ConvertUsing and
\* ForMember on one mapper; a statement that takes or releases a lock is
\* one step, and so is a callback, which may itself call the mapper before
\* it returns.  pc names the function and the line the goroutine is at;
\* local holds the call's type pair, the types getTypeInfo is still to be
\* asked for, and the callbacks suspended in calls of their own.
\* ------------------------------------------------------------------------
\* bound of the exploration: calls made by callbacks that are in progress,
\* over all goroutines
MaxReentry == 1

LockPair == <<"SourceBasic", "DestMixed">>
ConverterPair == ConverterKey("strict")
\* the name ForMember is called with: DestMixed has no such field
LockMember == nCity

\* a callback is executing: the global converter in mapValue; before hooks,
\* custom transform, condition, resolver and field converter; the global
\* converter in assignValue; after hooks
CallbackPcs ==
    {"mapValue:104", "mapStructStandard:164", "assignValue:283", "mapStructStandard:184"}
\* the goroutine is inside m.config.mu.Lock(), m.config.mu.RLock(),
\* tc.mu.Lock(), tc.mu.RLock()
ConfigLockPcs == {"autoCreateTypeMap:412", "CreateMap:179", "ConvertUsing:264"}
ConfigRLockPcs == {"mapValue:99", "mapStruct:142", "assignValue:278"}
CacheLockPcs == {"getTypeInfo:51"}
CacheRLockPcs == {"getTypeInfo:44"}

Holds(mu, th) == mu.writer = th \/ th \in mu.readers

LockQuiet == UNCHANGED <<cfgVars, memberCalls, ignored, call, events, insts>>

\* the call returns: to the callback that made it, else to the goroutine
Leave(th) ==
    IF local[th].stack = <<>>
    THEN Goto(th, "idle") /\ Assign(th, NoLocals)
    ELSE /\ Goto(th, Head(local[th].stack).pc)
         /\ Assign(th, [local[th] EXCEPT !.op = Head(local[th].stack).op,
                                         !.key = Head(local[th].stack).key,
                                         !.todo = <<>>,
                                         !.stack = Tail(local[th].stack)])

Jump(th, to) == IF to = "return" THEN Leave(th) ELSE Goto(th, to) /\ UNCHANGED local

\* a step that changes nothing but locks and the goroutine's position
LockStep(th, to, cm, km) ==
    /\ Jump(th, to)
    /\ configMu' = cm
    /\ cacheMu' = km
    /\ UNCHANGED <<typeMaps, optimizedMaps, typeCache, converters, builders>>
    /\ LockQuiet

\* the suspended callbacks of all goroutines
Suspended ==
    {<<t, i>> \in Threads \X (1..MaxReentry) :
        pc[t] # "idle" /\ i <= Len(local[t].stack)}

FirstPc(op) ==
    CASE op = "Map" -> "mapValue:99"
      [] op = "CreateMap" -> "CreateMap:179"
      [] op = "ConvertUsing" -> "ConvertUsing:264"
      [] op = "ForMember" -> "getTypeInfo:44"

\* the goroutine, or the callback it is executing, calls the mapper.  Of
\* ForMember the program makes one call at a time, outside callbacks, for a
\* name that has no member map.
callBegin(th, op, key) ==
    /\ \/ pc[th] = "idle"
       \/ pc[th] \in CallbackPcs /\ Cardinality(Suspended) < MaxReentry
    /\ op = "ForMember" =>
         /\ pc[th] = "idle"
         /\ key \in builders
         /\ MemberIndex(typeMaps[key].memberMaps, LockMember) = 0
         /\ \A t \in Threads : pc[t] # "idle" => local[t].op # "ForMember"
    /\ Assign(th, [at |-> "call", op |-> op, key |-> key,
                   todo |-> IF op = "ForMember" THEN <<key[2]>> ELSE <<>>,
                   stack |-> IF pc[th] = "idle" THEN <<>>
                             ELSE <<[pc |-> pc[th], op |-> local[th].op,
                                     key |-> local[th].key]>> \o local[th].stack])
    /\ Goto(th, FirstPc(op))
    /\ UNCHANGED <<configMu, cacheMu, typeMaps, optimizedMaps, typeCache, converters,
                   builders>>
    /\ LockQuiet

\* the callback returns to the statement after it
callbackReturns(th) ==
    /\ pc[th] \in CallbackPcs
    /\ LockStep(th, CASE pc[th] = "mapValue:104" -> "return"
                      [] pc[th] = "mapStructStandard:164" -> "assignValue:278"
                      [] pc[th] = "assignValue:283" -> "mapStructStandard:184"
                      [] pc[th] = "mapStructStandard:184" -> "return",
                configMu, cacheMu)

\* engine.go:99: m.config.mu.RLock()
mapValue_RLock(th) ==
    /\ pc[th] = "mapValue:99"
    /\ CanRLock(configMu)
    /\ LockStep(th, "mapValue:101", [configMu EXCEPT !.readers = @ \cup {th}], cacheMu)

\* the converter called with the read lock still held
mapValue_RUnlockDeferred(th) ==
    /\ pc[th] = "mapValue:101"
    /\ IF local[th].key \in DOMAIN converters
       THEN LockStep(th, "mapValue:104", configMu, cacheMu)
       ELSE LockStep(th, IF Kind(local[th].key[1]) = "Struct" THEN "mapStruct:142"
                         ELSE "return",
                     [configMu EXCEPT !.readers = @ \ {th}], cacheMu)

\* engine.go:100-115: the converter looked up under the lock,
\* m.config.mu.RUnlock(), then the converter, or mapStruct for a record
mapValue_RUnlock(th) ==
    /\ pc[th] = "mapValue:101"
    /\ LockStep(th, IF local[th].key \in DOMAIN converters THEN "mapValue:104"
                    ELSE IF Kind(local[th].key[1]) = "Struct" THEN "mapStruct:142"
                    ELSE "return",
                [configMu EXCEPT !.readers = @ \ {th}], cacheMu)

\* engine.go:142: m.config.mu.RLock()
mapStruct_RLock(th) ==
    /\ pc[th] = "mapStruct:142"
    /\ CanRLock(configMu)
    /\ LockStep(th, "mapStruct:146", [configMu EXCEPT !.readers = @ \cup {th}], cacheMu)

\* engine.go:143-151: the TypeMap looked up under the lock,
\* m.config.mu.RUnlock(), autoCreateTypeMap if there is none
mapStruct_RUnlock(th) ==
    /\ pc[th] = "mapStruct:146"
    /\ LockStep(th, IF local[th].key \in DOMAIN typeMaps THEN "mapStructStandard:164"
                    ELSE "autoCreateTypeMap:412",
                [configMu EXCEPT !.readers = @ \ {th}], cacheMu)

\* engine.go:412-427: m.config.mu.Lock() and the double-check;
\* autoConfigureMembers asks getTypeInfo for the source and the destination
\* type (mapper.go:207-208)
autoCreateTypeMap_Lock(th) ==
    /\ pc[th] = "autoCreateTypeMap:412"
    /\ CanLock(configMu)
    /\ configMu' = [configMu EXCEPT !.writer = th]
    /\ IF local[th].key \in DOMAIN typeMaps
       THEN Goto(th, "autoCreateTypeMap:436") /\ UNCHANGED local
       ELSE /\ Goto(th, "getTypeInfo:44")
            /\ Assign(th, [local[th] EXCEPT !.todo = <<local[th].key[1], local[th].key[2]>>])
    /\ UNCHANGED <<cacheMu, typeMaps, optimizedMaps, typeCache, converters, builders>>
    /\ LockQuiet

\* where getTypeInfo's caller goes on
AfterTypeInfo(op) ==
    CASE op = "Map" -> "autoCreateTypeMap:427"
      [] op = "CreateMap" -> "CreateMap:190"
      [] op = "ForMember" -> "ForMember:197"

\* getTypeInfo returns: the next type, or back to the caller
getTypeInfoReturn(th) ==
    /\ Goto(th, IF Len(local[th].todo) > 1 THEN "getTypeInfo:44"
                ELSE AfterTypeInfo(local[th].op))
    /\ Assign(th, [local[th] EXCEPT !.todo = Tail(@)])

\* part_000:44: tc.mu.RLock()
getTypeInfo_RLock(th) ==
    /\ pc[th] = "getTypeInfo:44"
    /\ CanRLock(cacheMu)
    /\ LockStep(th, "getTypeInfo:46", configMu, [cacheMu EXCEPT !.readers = @ \cup {th}])

\* part_000:45-48: the look-up, tc.mu.RUnlock(), return on a hit
getTypeInfo_RUnlock(th) ==
    /\ pc[th] = "getTypeInfo:46"
    /\ cacheMu' = [cacheMu EXCEPT !.readers = @ \ {th}]
    /\ IF Head(local[th].todo) \in DOMAIN typeCache
       THEN getTypeInfoReturn(th)
       ELSE Goto(th, "getTypeInfo:51") /\ UNCHANGED local
    /\ UNCHANGED <<configMu, typeMaps, optimizedMaps, typeCache, converters, builders>>
    /\ LockQuiet

\* part_000:51: tc.mu.Lock()
getTypeInfo_Lock(th) ==
    /\ pc[th] = "getTypeInfo:51"
    /\ CanLock(cacheMu)
    /\ LockStep(th, "getTypeInfo:54", configMu, [cacheMu EXCEPT !.writer = th])

\* part_000:52-60: double-check, build, store; the deferred tc.mu.Unlock()
getTypeInfo_Unlock(th) ==
    /\ pc[th] = "getTypeInfo:54"
    /\ typeCache' = getTypeInfo(typeCache, Head(local[th].todo)).cache
    /\ cacheMu' = [cacheMu EXCEPT !.writer = 0]
    /\ getTypeInfoReturn(th)
    /\ UNCHANGED <<configMu, typeMaps, optimizedMaps, converters, builders>>
    /\ LockQuiet

\* a TypeMap for the call's pair is configured, stored and compiled, and
\* the function returns, which releases the registry lock
StoreTypeMap(th, to) ==
    /\ LET key == local[th].key
           a == autoConfigureMembers(key[1], key[2], typeCache)
           tm == NewTypeMap(key[1], key[2], a.memberMaps)
       IN /\ typeMaps' = Put(typeMaps, key, tm)
          /\ typeCache' = a.cache
          /\ optimizedMaps' = IF optLevel > OptimizationNone
                              THEN Put(optimizedMaps, key,
                                       compileOptimizedTypeMap(tm, optLevel))
                              ELSE optimizedMaps
    /\ Jump(th, to)
    /\ configMu' = [configMu EXCEPT !.writer = 0]
    /\ UNCHANGED <<cacheMu, converters>>
    /\ LockQuiet

\* engine.go:413,427-436: the TypeMap is stored and compiled; return tm and
\* the deferred m.config.mu.Unlock(); then mapStructStandard (engine.go:159)
autoCreateTypeMap_Store(th) ==
    /\ pc[th] = "autoCreateTypeMap:427"
    /\ StoreTypeMap(th, "mapStructStandard:164")
    /\ UNCHANGED builders

\* engine.go:413,416-418: the double-check found the TypeMap: return tm and
\* the deferred m.config.mu.Unlock(); then mapStructStandard (engine.go:159)
autoCreateTypeMap_Unlock(th) ==
    /\ pc[th] = "autoCreateTypeMap:436"
    /\ LockStep(th, "mapStructStandard:164", [configMu EXCEPT !.writer = 0], cacheMu)

\* engine.go:278: m.config.mu.RLock() in assignValue, for a string field
assignValue_RLock(th) ==
    /\ pc[th] = "assignValue:278"
    /\ CanRLock(configMu)
    /\ LockStep(th, "assignValue:280", [configMu EXCEPT !.readers = @ \cup {th}], cacheMu)

\* engine.go:279-283: the look-up, m.config.mu.RUnlock(), the converter
assignValue_RUnlock(th) ==
    /\ pc[th] = "assignValue:280"
    /\ LockStep(th, IF ConverterPair \in DOMAIN converters THEN "assignValue:283"
                    ELSE "mapStructStandard:184",
                [configMu EXCEPT !.readers = @ \ {th}], cacheMu)

\* mapper.go:179: m.config.mu.Lock(); autoConfigureMembers follows
CreateMap_Lock(th) ==
    /\ pc[th] = "CreateMap:179"
    /\ CanLock(configMu)
    /\ configMu' = [configMu EXCEPT !.writer = th]
    /\ Goto(th, "getTypeInfo:44")
    /\ Assign(th, [local[th] EXCEPT !.todo = <<local[th].key[1], local[th].key[2]>>])
    /\ UNCHANGED <<cacheMu, typeMaps, optimizedMaps, typeCache, converters, builders>>
    /\ LockQuiet

\* mapper.go:180,190-203: the TypeMap is stored and compiled; return the
\* builder and the deferred m.config.mu.Unlock()
CreateMap_Store(th) ==
    /\ pc[th] = "CreateMap:190"
    /\ StoreTypeMap(th, "return")
    /\ builders' = builders \cup {local[th].key}

\* part_002:264-266: m.config.mu.Lock(); the converter is stored
ConvertUsing_Lock(th) ==
    /\ pc[th] = "ConvertUsing:264"
    /\ CanLock(configMu)
    /\ configMu' = [configMu EXCEPT !.writer = th]
    /\ converters' = Put(converters, ConverterPair, "strict")
    /\ Goto(th, "ConvertUsing:275")
    /\ UNCHANGED <<local, cacheMu, typeMaps, optimizedMaps, typeCache, builders>>
    /\ LockQuiet

\* part_002:265,275: the deferred m.config.mu.Unlock()
ConvertUsing_Unlock(th) ==
    /\ pc[th] = "ConvertUsing:275"
    /\ LockStep(th, "return", [configMu EXCEPT !.writer = 0], cacheMu)

\* part_002:197-214: ForMember for a name with no member map: if the
\* destination has such a field, a new member map is appended and MapFrom
\* applied, under no lock
ForMember_Append(th) ==
    /\ pc[th] = "ForMember:197"
    /\ LET key == local[th].key
           d == getTypeInfo(typeCache, key[2])
       IN typeMaps' =
            IF HasField(d.info, LockMember)
            THEN [typeMaps EXCEPT ![key].memberMaps =
                    Append(@, ApplyMemberOption(
                                NewMemberMap(LockMember,
                                             FieldByName(d.info, LockMember).index),
                                Opt("MapFrom", nEmail, "")))]
            ELSE typeMaps
    /\ Leave(th)
    /\ UNCHANGED <<configMu, cacheMu, optimizedMaps, typeCache, converters, builders>>
    /\ LockQuiet

\* ------------------------------------------------------------------------
\* Mapping a linked record.  Node{Val int; Next *Node} is mapped onto
\* NodeDTO{Val int; Next *NodeDTO}; the source nodes live in a heap (address
\* -> node, next = 0 is nil), so that Next may point back.  Each node costs
\* one nest of calls mapValue -> mapStruct -> mapStructStandard -> mapMember
\* -> assignValue -> assignValue -> mapValue (engine.go:115, 159, 178, 252,
\* 273, 305); the goroutine's stack holds MaxStack of them, and the Go
\* runtime ends the process when the stack limit is exceeded.
\* ------------------------------------------------------------------------
\* bound of the exploration: nests of calls the goroutine's stack holds
MaxStack == 3

NodePair == <<"Node", "NodeDTO">>

\* what a step of the walk leaves alone
NodeFrame ==
    /\ RegistryFrame
    /\ UNCHANGED <<configMu, events, insts>>

\* Map[NodeDTO](m, &heap[1]): mapValue dereferences the source; the first
\* mapStruct finds the registry entry for (Node, NodeDTO) or auto-creates
\* it (engine.go:139-151), the nested ones find it
mapNodeBegin(th, heap) ==
    /\ pc[th] = "idle"
    /\ LET c == autoCreateTypeMap(Cfg, NodePair)
       IN /\ typeMaps' = c.typeMaps
          /\ optimizedMaps' = c.optimizedMaps
          /\ typeCache' = c.typeCache
    /\ Assign(th, [at |-> "mapNode", heap |-> heap, cur |-> 1, depth |-> 1,
                   dest |-> <<>>, status |-> "running"])
    /\ Goto(th, "mn_struct")
    /\ NodeFrame

\* the member loop, rule for Val: Val is assigned to the destination node
\* (dest lists the destination nodes built, outermost first)
mapNodeStruct(th) ==
    /\ pc[th] = "mn_struct"
    /\ NodePair \in DOMAIN typeMaps
    /\ Assign(th, [local[th] EXCEPT !.dest = Append(@, local[th].heap[local[th].cur].val)])
    /\ Goto(th, "mn_next")
    /\ UNCHANGED <<typeMaps, optimizedMaps, typeCache>>
    /\ NodeFrame

\* the rule for Next: a nil source pointer is skipped (engine.go:257-260)
\* and every call returns nil; else the destination pointer is allocated
\* (engine.go:270-273) and, the two record types being neither assignable
\* nor convertible, assignValue calls mapValue for the node pointed to
mapNodeNext(th) ==
    /\ pc[th] = "mn_next"
    /\ IF local[th].heap[local[th].cur].next = 0
       THEN /\ Assign(th, [local[th] EXCEPT !.status = "ok"])
            /\ Goto(th, "idle")
       ELSE IF local[th].depth = MaxStack
       THEN /\ Assign(th, [local[th] EXCEPT !.status = "stack overflow"])
            /\ Goto(th, "crashed")
       ELSE /\ Assign(th, [local[th] EXCEPT !.cur = local[th].heap[local[th].cur].next,
                                            !.depth = @ + 1])
            /\ Goto(th, "mn_struct")
    /\ UNCHANGED <<typeMaps, optimizedMaps, typeCache>>
    /\ NodeFrame

\* ------------------------------------------------------------------------
\* The programs explored
\* ------------------------------------------------------------------------
Values(t) ==
    CASE t = "SourceBasic" -> {<<"a", 65, "e">>, <<"a", 15, "e">>, <<"", 65, "">>}
      [] t = "Order" -> {<<9999, <<"Alice">>>>, <<0, <<"">>>>}
      [] t = "OrderP" -> {<<9999, <<>>>>, <<9999, <<<<"Alice">>>>>>}
      [] t = "OrderX" -> {<<9999, <<"Alice">>, "x">>, <<0, <<"Alice">>, "">>}
      [] t = "Shipment" -> {<<<<9999, <<"Alice">>>>>>}
      [] t = "SourceItem" -> {<<1, "a">>, <<2, "e">>}
      [] t = "string" -> {"a", ""}
      [] t = "Derived" -> {<<<<1, "e">>, "a">>, <<<<2, "">>, "a">>}
      [] t = "DerivedDTO" -> {<<1, "a">>, <<2, "e">>}
      [] t = "map[string]SourceItem" ->
           {NilMap, MakeMap(EmptyMap), MakeMap(Put(EmptyMap, "k", <<1, "a">>)),
            MakeMap(Put(Put(EmptyMap, "k", <<1, "a">>), "l", <<2, "e">>))}
      [] t = "SourceCatalog" ->
           {<<"a", MakeMap(Put(EmptyMap, "x", "y")), items>> :
              items \in {MakeMap(Put(EmptyMap, "k", <<1, "a">>)),
                         MakeMap(Put(Put(EmptyMap, "k", <<1, "a">>), "l", <<2, "e">>))}}
      [] t = "DestItem" -> {<<1, "a">>}
      [] t = "SourceWithPointer" -> {<<"a", <<>>>>, <<"a", <<<<"s", "c">>>>>>}
      [] t = "[]SourceItem" -> {NilSlice, MakeSlice(<<>>), MakeSlice(<<<<1, "a">>>>),
                                MakeSlice(<<<<1, "a">>, <<2, "e">>>>)}
      [] t = "SourceWithSlice" ->
           {<<"a", NilSlice, NilSlice>>,
            <<"a", MakeSlice(<<>>), MakeSlice(<<>>)>>,
            <<"e", MakeSlice(<<<<1, "a">>, <<2, "e">>>>), MakeSlice(<<"x">>)>>}

\* a destination already holding values, for MapTo
Dirty(t) ==
    CASE t = "DestBasic" -> <<"z", 9, "z">>
      [] t = "DestMixed" -> <<"z", 9, "z">>
      [] t = "OrderDTO" -> <<1, "z">>
      [] t = "OrderView" -> <<"z", "z", "z", "z">>
      [] t = "ShipmentDTO" -> <<"z">>
      [] t = "DestWithSlice" -> <<"z", MakeSlice(<<<<9, "z">>>>), MakeSlice(<<"z">>)>>
      [] t = "DestAudit" -> <<"z", 9, MakeSlice(<<"0">>)>>
      [] t = "DestWithPointer" -> <<"z", <<<<"z", "z">>>>>>
      [] t = "OrderText" -> <<1, "z">>
      [] t = "Derived" -> <<<<9, "z">>, "z">>
      [] t = "DerivedDTO" -> <<9, "z">>
      [] t = "DestCatalog" -> <<"z", NilMap, MakeMap(Put(EmptyMap, "z", <<9, "z">>))>>
      [] t = "map[string]DestItem" -> MakeMap(Put(EmptyMap, "z", <<9, "z">>))
      [] t = "string" -> "z"
      [] t = "int" -> 9
      [] t = "*AddressDTO" -> <<<<"z", "z">>>>

RulePairs == {<<"SourceBasic", "DestBasic">>, <<"SourceBasic", "DestMixed">>}

MemberOptions ==
    {Opt("Ignore", NoName, ""), Opt("Condition", NoName, "adult"),
     Opt("MapFrom", nEmail, ""), Opt("MapFromFunc", NoName, "resolved"),
     Opt("UseConverter", NoName, "upperField")}

DestNames(key) == {StructFields(key[2])[i].name : i \in 1..Len(StructFields(key[2]))}

Next ==
    \/ \E key \in RulePairs : CreateMap(key)
    \/ \E key \in RulePairs : \E n \in DestNames(key) : \E o \in MemberOptions :
         ForMemberByName(key, n, o)
    \/ \E c \in {"upper", "widen"} : ConvertUsing(c)
    \/ \E key \in RulePairs : \E src \in Values(key[1]) : \E byPtr \in BOOLEAN :
         Map(key, src, byPtr)
    \/ \E key \in RulePairs : \E src \in Values(key[1]) : \E byPtr \in BOOLEAN :
         MapTo(key, src, byPtr, Dirty(key[2]))
    \/ Return

Spec == Init /\ [][Next]_vars

\* the flattening programs: type pairs configured automatically only
FlatPairs == {<<"Order", "OrderDTO">>, <<"OrderP", "OrderDTO">>, <<"OrderX", "OrderDTO">>,
              <<"Order", "OrderView">>, <<"Shipment", "ShipmentDTO">>}

NextFlat ==
    \/ \E key \in FlatPairs : CreateMap(key)
    \/ \E key \in FlatPairs : \E src \in Values(key[1]) : \E byPtr \in BOOLEAN :
         Map(key, src, byPtr)
    \/ \E key \in FlatPairs : \E src \in Values(key[1]) : \E byPtr \in BOOLEAN :
         MapTo(key, src, byPtr, Dirty(key[2]))
    \/ Return

SpecFlat == Init /\ [][NextFlat]_vars

\* the collection programs: mappers built with and without
\* WithAllowNullCollections, sequences at the top level and in record fields
InitColl ==
    /\ ThreadInit
    /\ \E l \in Levels : \E allow \in BOOLEAN :
         LET level == [opt |-> "WithOptimizationLevel", level |-> l]
             c == NewWithConfig(IF allow
                                THEN <<level, [opt |-> "WithAllowNullCollections",
                                               level |-> 0]>>
                                ELSE <<level>>)
         IN /\ optLevel = c.optLevel
            /\ useUnsafe = c.useUnsafe
            /\ allowNilColl = c.allowNilColl
    /\ typeMaps = EmptyMap
    /\ optimizedMaps = EmptyMap
    /\ typeCache = EmptyMap
    /\ converters = EmptyMap
    /\ builders = {}
    /\ memberCalls = 0
    /\ ignored = {}
    /\ call = NoCall

ItemPair == <<"SourceItem", "DestItem">>
CollPairs == {<<"SourceWithSlice", "DestWithSlice">>}

NextColl ==
    \/ \E key \in CollPairs \cup {ItemPair} : CreateMap(key)
    \/ \E src \in Values("[]SourceItem") : MapSlice(ItemPair, src)
    \/ \E key \in CollPairs : \E src \in Values(key[1]) : \E byPtr \in BOOLEAN :
         Map(key, src, byPtr)
    \/ \E key \in CollPairs : \E src \in Values(key[1]) : \E byPtr \in BOOLEAN :
         MapTo(key, src, byPtr, Dirty(key[2]))
    \/ Return

SpecColl == InitColl /\ [][NextColl]_vars

\* the hook programs: recording hooks, a mutating after-hook and a custom
\* transform on (SourceBasic, DestAudit)
AuditPair == <<"SourceBasic", "DestAudit">>
AuditSources == {<<"a", 65, "e">>}

NextHooks ==
    \/ CreateMap(AuditPair)
    \/ \E h \in {"seen1", "seen2"} : BeforeMap(AuditPair, h)
    \/ \E h \in {"seen1", "seen2", "modify"} : AfterMap(AuditPair, h)
    \/ CustomMap(AuditPair, "custom")
    \/ \E src \in AuditSources : \E byPtr \in BOOLEAN : Map(AuditPair, src, byPtr)
    \/ \E src \in AuditSources : \E byPtr \in BOOLEAN :
         MapTo(AuditPair, src, byPtr, Dirty("DestAudit"))
    \/ Return

SpecHooks == Init /\ [][NextHooks]_vars

\* the programs with absent sources: nil at the top level, a nil pointer
\* field, a nil pointer on a flattening path; destinations that hold values
\* and destinations that hold nil pointers
PointerPairs == {<<"SourceWithPointer", "DestWithPointer">>, <<"OrderP", "OrderDTO">>}
NilPairs == PointerPairs \cup {<<"Address", "*AddressDTO">>}

NextAbsent ==
    \/ \E key \in PointerPairs : CreateMap(key)
    \/ \E key \in PointerPairs : \E src \in Values(key[1]) : \E byPtr \in BOOLEAN :
         Map(key, src, byPtr)
    \/ \E key \in PointerPairs : \E src \in Values(key[1]) : \E byPtr \in BOOLEAN :
         \E dest \in {Dirty(key[2]), Zero(key[2])} : MapTo(key, src, byPtr, dest)
    \/ \E key \in NilPairs : \E typed \in BOOLEAN :
         \E dest \in {Dirty(key[2]), Zero(key[2])} : MapToNil(key, typed, dest)
    \/ Return

SpecAbsent == Init /\ [][NextAbsent]_vars

\* the programs whose sequence elements may fail: a before-hook on
\* (SourceItem, DestItem) rejects the elements with ID 2
ElemSlices ==
    {MakeSlice(<<<<1, "a">>>>), MakeSlice(<<<<2, "e">>>>),
     MakeSlice(<<<<1, "a">>, <<2, "e">>>>), MakeSlice(<<<<2, "e">>, <<1, "a">>>>),
     MakeSlice(<<<<1, "a">>, <<2, "e">>, <<2, "a">>>>),
     MakeSlice(<<<<1, "a">>, <<1, "e">>, <<2, "a">>>>)}
ElemSources == {<<"a", items, MakeSlice(<<"x">>)>> : items \in ElemSlices}

NextElem ==
    \/ \E key \in CollPairs \cup {ItemPair} : CreateMap(key)
    \/ BeforeMap(ItemPair, "checkID")
    \/ \E src \in ElemSlices : MapSlice(ItemPair, src)
    \/ \E key \in CollPairs : \E src \in ElemSources : \E byPtr \in BOOLEAN :
         Map(key, src, byPtr)
    \/ \E key \in CollPairs : \E src \in ElemSources : \E byPtr \in BOOLEAN :
         MapTo(key, src, byPtr, Dirty(key[2]))
    \/ Return

SpecElem == InitColl /\ [][NextElem]_vars

\* the programs whose callbacks fail: a resolver that returns an error, a
\* field converter given a value it rejects, a global converter that
\* rejects the empty string
CallbackPair == <<"SourceBasic", "DestBasic">>
FailingOptions ==
    {Opt("MapFromFunc", NoName, "broken"), Opt("UseConverter", NoName, "upperField")}

NextCallback ==
    \/ CreateMap(CallbackPair)
    \/ \E n \in DestNames(CallbackPair) : \E o \in FailingOptions :
         ForMemberByName(CallbackPair, n, o)
    \/ ConvertUsing("strict")
    \/ \E src \in Values("SourceBasic") : \E byPtr \in BOOLEAN :
         Map(CallbackPair, src, byPtr)
    \/ Return

SpecCallback == Init /\ [][NextCallback]_vars

\* the programs that map between types with no mapping path: a record onto
\* a scalar, a string onto an integer, a record field onto a string field
MismatchPairs == {<<"SourceBasic", "string">>, <<"SourceBasic", "int">>,
                  <<"string", "int">>, <<"Order", "OrderText">>}

NextMismatch ==
    \/ CreateMap(<<"Order", "OrderText">>)
    \/ \E key \in MismatchPairs : \E src \in Values(key[1]) : \E byPtr \in BOOLEAN :
         Map(key, src, byPtr)
    \/ \E key \in MismatchPairs : \E src \in Values(key[1]) : \E byPtr \in BOOLEAN :
         MapTo(key, src, byPtr, Dirty(key[2]))
    \/ Return

SpecMismatch == Init /\ [][NextMismatch]_vars

\* the programs with associative containers: a map of records at the top
\* level and in a record field (as Labels in TestMapField, with record
\* values)
CatalogPair == <<"SourceCatalog", "DestCatalog">>
ItemMapPair == <<"map[string]SourceItem", "map[string]DestItem">>

NextCatalog ==
    \/ \E key \in {CatalogPair, ItemPair} : CreateMap(key)
    \/ \E src \in Values("SourceCatalog") : \E byPtr \in BOOLEAN :
         Map(CatalogPair, src, byPtr)
    \/ \E src \in Values("SourceCatalog") : \E byPtr \in BOOLEAN :
         MapTo(CatalogPair, src, byPtr, Dirty("DestCatalog"))
    \/ \E src \in Values(ItemMapPair[1]) : Map(ItemMapPair, src, FALSE)
    \/ \E src \in Values(ItemMapPair[1]) :
         MapTo(ItemMapPair, src, FALSE, Dirty(ItemMapPair[2]))
    \/ Return

SpecCatalog == InitColl /\ [][NextCatalog]_vars

\* the programs with embedded records: Derived embeds Base and declares a
\* field Name of its own beside the promoted Base.Name
EmbeddedPairs == {<<"Derived", "DerivedDTO">>, <<"DerivedDTO", "Derived">>}

NextEmbedded ==
    \/ \E key \in EmbeddedPairs : CreateMap(key)
    \/ \E key \in EmbeddedPairs : \E src \in Values(key[1]) : \E byPtr \in BOOLEAN :
         Map(key, src, byPtr)
    \/ \E key \in EmbeddedPairs : \E src \in Values(key[1]) : \E byPtr \in BOOLEAN :
         MapTo(key, src, byPtr, Dirty(key[2]))
    \/ Return

SpecEmbedded == Init /\ [][NextEmbedded]_vars

\* the programs mapping linked records: two nodes, every choice of their
\* Next pointers (nil, itself, the other node)
Heaps ==
    {[a \in 1..2 |-> [val |-> a, next |-> n[a]]] : n \in [1..2 -> 0..2]}

NextNode ==
    \/ \E heap \in Heaps : mapNodeBegin(1, heap)
    \/ mapNodeStruct(1)
    \/ mapNodeNext(1)

\* the goroutine runs: a call in progress takes its next step
SpecNode ==
    Init /\ [][NextNode]_vars /\ WF_vars(mapNodeStruct(1) \/ mapNodeNext(1))

\* the programs over mappers built from any short sequence of options
MaxOptions == 2
OptionSequences == UNION {[1..n -> ConfigOptions] : n \in 0..MaxOptions}

InitOptions ==
    /\ ThreadInit
    /\ \E opts \in OptionSequences :
         LET c == NewWithConfig(opts)
         IN /\ optLevel = c.optLevel
            /\ useUnsafe = c.useUnsafe
            /\ allowNilColl = c.allowNilColl
    /\ typeMaps = EmptyMap
    /\ optimizedMaps = EmptyMap
    /\ typeCache = EmptyMap
    /\ converters = EmptyMap
    /\ builders = {}
    /\ memberCalls = 0
    /\ ignored = {}
    /\ call = NoCall

NextOptions ==
    \/ \E key \in RulePairs : CreateMap(key)
    \/ \E key \in RulePairs : \E src \in Values(key[1]) : \E byPtr \in BOOLEAN :
         Map(key, src, byPtr)
    \/ Return

SpecOptions == InitOptions /\ [][NextOptions]_vars

\* goroutines mapping and configuring one mapper, with callbacks that call
\* the mapper
LockCalls ==
    {<<"Map", LockPair>>, <<"Map", ConverterPair>>, <<"CreateMap", LockPair>>,
     <<"ConvertUsing", ConverterPair>>, <<"ForMember", LockPair>>}

NextLocks ==
    \/ \E th \in Threads : \E c \in LockCalls : callBegin(th, c[1], c[2])
    \/ \E th \in Threads : callbackReturns(th)
    \/ \E th \in Threads : mapValue_RLock(th)
    \/ \E th \in Threads : mapValue_RUnlock(th)
    \/ \E th \in Threads : mapStruct_RLock(th)
    \/ \E th \in Threads : mapStruct_RUnlock(th)
    \/ \E th \in Threads : autoCreateTypeMap_Lock(th)
    \/ \E th \in Threads : autoCreateTypeMap_Store(th)
    \/ \E th \in Threads : autoCreateTypeMap_Unlock(th)
    \/ \E th \in Threads : getTypeInfo_RLock(th)
    \/ \E th \in Threads : getTypeInfo_RUnlock(th)
    \/ \E th \in Threads : getTypeInfo_Lock(th)
    \/ \E th \in Threads : getTypeInfo_Unlock(th)
    \/ \E th \in Threads : assignValue_RLock(th)
    \/ \E th \in Threads : assignValue_RUnlock(th)
    \/ \E th \in Threads : CreateMap_Lock(th)
    \/ \E th \in Threads : CreateMap_Store(th)
    \/ \E th \in Threads : ConvertUsing_Lock(th)
    \/ \E th \in Threads : ConvertUsing_Unlock(th)
    \/ \E th \in Threads : ForMember_Append(th)

\* the mapper is built by New(); nothing is registered yet
InitLocks ==
    /\ ThreadInit
    /\ optLevel = New.optLevel
    /\ useUnsafe = New.useUnsafe
    /\ allowNilColl = New.allowNilColl
    /\ typeMaps = EmptyMap
    /\ optimizedMaps = EmptyMap
    /\ typeCache = EmptyMap
    /\ converters = EmptyMap
    /\ builders = {}
    /\ memberCalls = 0
    /\ ignored = {}
    /\ call = NoCall

SpecLocks == InitLocks /\ [][NextLocks]_vars

\* the registry programs: a pair, its reverse, a pair whose elements are
\* mapped as the first pair, and global converters
Reverse(key) == <<key[2], key[1]>>
RegistryPairs == {ItemPair, Reverse(ItemPair), <<"SourceWithSlice", "DestWithSlice">>}

NextRegistry ==
    \/ \E key \in RegistryPairs : CreateMap(key)
    \/ \E key \in {ItemPair, Reverse(ItemPair)} : ReverseMap(key)
    \/ \E c \in {"upper", "widen"} : ConvertUsing(c)
    \/ \E key \in RegistryPairs : \E src \in Values(key[1]) : \E byPtr \in BOOLEAN :
         Map(key, src, byPtr)
    \/ \E src \in Values("[]SourceItem") : MapSlice(ItemPair, src)
    \/ Return

SpecRegistry == Init /\ [][NextRegistry]_vars

\* goroutines asking one cache for type metadata
CacheTypes == {"SourceBasic", "*SourceBasic", "Order"}

NextCache ==
    \/ \E th \in Threads : \E t \in CacheTypes : getTypeInfoRLock(th, t)
    \/ \E th \in Threads : getTypeInfoRead(th)
    \/ \E th \in Threads : getTypeInfoRUnlock(th)
    \/ \E th \in Threads : getTypeInfoLock(th)
    \/ \E th \in Threads : getTypeInfoCheck(th)
    \/ \E th \in Threads : getTypeInfoBuild(th)
    \/ \E th \in Threads : getTypeInfoStore(th)
    \/ \E th \in Threads : getTypeInfoUnlock(th)

SpecCache == Init /\ [][NextCache]_vars

\* goroutines mapping with one mapper on which nothing was registered
FirstUsePairs == {<<"SourceBasic", "DestBasic">>, <<"Order", "OrderDTO">>}
FirstUseSource(key) ==
    IF key[1] = "SourceBasic" THEN <<"a", 65, "e">> ELSE <<9999, <<"Alice">>>>

NextFirstUse ==
    \/ \E th \in Threads : \E key \in FirstUsePairs :
         mapValueBegin(th, key, FirstUseSource(key))
    \/ \E th \in Threads : mapStructRLock(th)
    \/ \E th \in Threads : mapStructRead(th)
    \/ \E th \in Threads : mapStructRUnlock(th)
    \/ \E th \in Threads : autoCreateLock(th)
    \/ \E th \in Threads : autoCreateCheck(th)
    \/ \E th \in Threads : autoCreateStore(th)
    \/ \E th \in Threads : autoCreateUnlock(th)
    \/ \E th \in Threads : mapStructExec(th)

SpecFirstUse == Init /\ [][NextFirstUse]_vars

\* a goroutine configuring a registered pair through its builder while
\* others map with it.  The main goroutine has called
\* CreateMap[SourceBasic, DestMixed] before starting them.
RacePair == <<"SourceBasic", "DestMixed">>
RaceLevels == {OptimizationNone, OptimizationPooled, OptimizationUnsafe}
RaceCalls ==
    {[name |-> nName, opts |-> <<Opt("MapFrom", nEmail, ""),
                                 Opt("UseConverter", NoName, "upperField")>>],
     [name |-> nContact, opts |-> <<Opt("MapFrom", nEmail, "")>>]}

InitRace ==
    /\ \E l \in RaceLevels :
         LET c == NewWithConfig(<<[opt |-> "WithOptimizationLevel", level |-> l]>>)
             r == autoCreateTypeMap(
                    [optLevel |-> c.optLevel, useUnsafe |-> c.useUnsafe,
                     allowNilColl |-> c.allowNilColl, typeMaps |-> EmptyMap,
                     optimizedMaps |-> EmptyMap, typeCache |-> EmptyMap,
                     converters |-> EmptyMap], RacePair)
         IN /\ optLevel = c.optLevel
            /\ useUnsafe = c.useUnsafe
            /\ allowNilColl = c.allowNilColl
            /\ typeMaps = r.typeMaps
            /\ optimizedMaps = r.optimizedMaps
            /\ typeCache = r.typeCache
    /\ converters = EmptyMap
    /\ builders = {RacePair}
    /\ memberCalls = 0
    /\ ignored = {}
    /\ call = NoCall
    /\ pc = [th \in Threads |-> "idle"]
    /\ local = [th \in Threads |-> NoLocals]
    /\ cacheMu = Unlocked
    /\ configMu = Unlocked
    /\ events = <<[kind |-> "TypeMap", key |-> RacePair, by |-> 0]>>
    /\ insts = Put(EmptyMap, RacePair, 1)

NextRace ==
    \/ \E th \in Threads : \E c \in RaceCalls : ForMemberFind(th, RacePair, c.name, c.opts)
    \/ \E th \in Threads : ForMemberAppend(th)
    \/ \E th \in Threads : ForMemberOption(th)
    \/ \E th \in Threads : mapValueBegin(th, RacePair, <<"a", 65, "e">>)
    \/ \E th \in Threads : mapStructRLock(th)
    \/ \E th \in Threads : mapStructRead(th)
    \/ \E th \in Threads : mapStructRUnlock(th)
    \/ \E th \in Threads : mapStructExec(th)

SpecRace == InitRace /\ [][NextRace]_vars

\* ------------------------------------------------------------------------
\* Properties
\* ------------------------------------------------------------------------
Called == call.op # "none"
Succeeded == Called /\ Len(call.err) = 0
SrcT == call.key[1]
DestT == call.key[2]
SrcRV == derefValue(ValueOf(SrcT, call.src, call.byPtr))
TM == typeMaps[call.key]
Members == 1..Len(TM.memberMaps)

\* position of the field named n among the fields a record type declares
ExactIndex(t, n) ==
    LET is == {i \in 1..Len(StructFields(t)) : StructFields(t)[i].name = n}
    IN IF is = {} THEN 0 ELSE CHOOSE i \in is : TRUE

FieldType(t, i) == StructFields(t)[i].type

AllPrimitiveType(t) ==
    \A i \in 1..Len(StructFields(t)) : isPrimitiveKind(Kind(FieldType(t, i)))

\* no hook, custom transform, resolver, field converter or condition
PlainMapping(tm) ==
    /\ tm.customMapper = "" /\ Len(tm.beforeMap) = 0 /\ Len(tm.afterMap) = 0
    /\ \A k \in 1..Len(tm.memberMaps) :
         /\ tm.memberMaps[k].resolver = ""
         /\ tm.memberMaps[k].converter = ""
         /\ tm.memberMaps[k].condition = ""

\* the member rule of a destination field is the one auto-configuration made
Unconfigured(mm) ==
    /\ ~mm.ignore /\ mm.resolver = "" /\ mm.converter = "" /\ mm.condition = ""
    /\ mm.srcField = mm.destField

\* the same call on a mapper of tier None holding configuration c
NoneTier(c) ==
    [c EXCEPT !.optLevel = OptimizationNone, !.useUnsafe = FALSE,
              !.optimizedMaps = EmptyMap]
RunOn(c) == mapValue(c, ValueOf(SrcT, call.src, call.byPtr), DestT, call.destPre)

\* C1: for record types with only primitive fields and no hook, custom
\* transform, resolver, converter or condition, Map at tier Unsafe or
\* Specialized has the outcome and the destination of Map at tier None.
C1_OptimizationEquivalence ==
    ( /\ call.op = "Map"
      /\ optLevel \in {OptimizationUnsafe, OptimizationSpecialized}
      /\ AllPrimitiveType(SrcT) /\ AllPrimitiveType(DestT)
      /\ PlainMapping(TM)
      /\ converters = EmptyMap )
    => /\ call.err = RunOn(NoneTier(Cfg)).err
       /\ Len(call.err) = 0 => call.dest = RunOn(NoneTier(Cfg)).v

\* destination fields the claim C2 is about: same name in the source, source
\* type assignable, no rule configured for the field
SharedFields ==
    {i \in 1..Len(StructFields(DestT)) :
        LET n == StructFields(DestT)[i].name
            j == ExactIndex(SrcT, n)
            k == MemberIndex(TM.memberMaps, n)
        IN /\ j > 0
           /\ AssignableTo(FieldType(SrcT, j), FieldType(DestT, i))
           /\ k > 0 /\ Unconfigured(TM.memberMaps[k])}

SourceOf(i) == call.src[ExactIndex(SrcT, StructFields(DestT)[i].name)]

C3_ConditionGating ==
    Called =>
        \A k \in Members :
            LET mm == TM.memberMaps[k]
                i == mm.destFieldIdx[1]
                plain == RunOn(NoneTier([Cfg EXCEPT
                            !.typeMaps[call.key].memberMaps[k].condition = ""]))
            IN (mm.condition # "" /\ ~mm.ignore)
               => IF ApplyCondition(mm.condition, SrcRV)
                  THEN (Succeeded /\ Len(plain.err) = 0) => call.dest[i] = plain.v[i]
                  ELSE ~IsPanic(call.err) => call.dest[i] = call.destPre[i]

\* C4: a destination field bound to a resolver holds, after a successful
\* call, the value the resolver returns for the source, at every tier.
C4_ResolverBinding ==
    Succeeded =>
        \A k \in Members :
            LET mm == TM.memberMaps[k]
                i == mm.destFieldIdx[1]
            IN ( /\ mm.resolver # "" /\ ~mm.ignore /\ mm.condition = "" /\ mm.converter = ""
                 /\ FieldType(DestT, i) = "string"
                 /\ <<"string", "string">> \notin DOMAIN converters )
               => call.dest[i] = ApplyResolver(mm.resolver, SrcRV).rv.v

\* C5: a destination field bound with MapFrom(X) holds, after a successful
\* call, the value of source field X, also when the field had an automatic
\* match to another source field.
C5_ExplicitSourceBinding ==
    Succeeded =>
        \A k \in Members :
            LET mm == TM.memberMaps[k]
                i == mm.destFieldIdx[1]
                j == ExactIndex(SrcT, mm.srcField)
            IN ( /\ ~mm.useFlattening /\ mm.srcField # mm.destField /\ j > 0
                 /\ ~mm.ignore /\ mm.condition = "" /\ mm.resolver = "" /\ mm.converter = ""
                 /\ AssignableTo(FieldType(SrcT, j), FieldType(DestT, i))
                 /\ <<FieldType(SrcT, j), FieldType(DestT, i)>> \notin DOMAIN converters )
               => call.dest[i] = call.src[j]

\* C6: when a global converter is registered for the exact type pair of a
\* structurally matched field, the destination field holds the converter's
\* result after a successful call, at every tier.
C6_ConverterPrecedence ==
    Succeeded =>
        \A k \in Members :
            LET mm == TM.memberMaps[k]
                i == mm.destFieldIdx[1]
                j == mm.srcFieldIdx[1]
                pair == <<FieldType(SrcT, j), FieldType(DestT, i)>>
            IN ( /\ Len(mm.srcFieldIdx) = 1 /\ Unconfigured(mm)
                 /\ pair \in DOMAIN converters )
               => call.dest[i] = ApplyConverter(converters[pair], call.src[j]).v

\* C7: once a builder has marked destination field D ignored, no later
\* mapping call for that type pair writes D (zero in Map, unchanged in MapTo),
\* at any tier.
C7_IgnoreOverridesMatching ==
    Called =>
        \A p \in ignored :
            p[1] = call.key
            => call.dest[ExactIndex(DestT, p[2])] = call.destPre[ExactIndex(DestT, p[2])]

\* The part of C7 the code keeps: a field whose rule in the registered type
\* mapping is marked ignored is not written at any tier, and after a
\* successful call the other shared fields hold their source values.
RegisteredIgnoreHonoured ==
    Called =>
        /\ \A k \in Members :
             TM.memberMaps[k].ignore
             => call.dest[TM.memberMaps[k].destFieldIdx[1]]
                  = call.destPre[TM.memberMaps[k].destFieldIdx[1]]
        /\ (Succeeded /\ \E k \in Members : TM.memberMaps[k].ignore)
           => \A i \in SharedFields :
                 <<FieldType(SrcT, ExactIndex(SrcT, StructFields(DestT)[i].name)),
                   FieldType(DestT, i)>> \notin DOMAIN converters
                 => call.dest[i] = SourceOf(i)

RegisteredIgnoreWitness ==
    /\ call.op = "MapTo" /\ Succeeded
    /\ optLevel = OptimizationSpecialized
    /\ call.key = <<"SourceBasic", "DestBasic">>
    /\ optimizedMaps[call.key].specializedFn
    /\ TM.memberMaps[3].ignore
    /\ converters = EmptyMap
    /\ call.src = <<"a", 65, "e">>
    /\ call.destPre = <<"z", 9, "z">>
    /\ call.dest = <<"a", 65, "z">>

\* the name parts of a destination field: a part starts at position 1 and
\* at every capital letter after it
Cuts(n) == {i \in 1..Len(n) : i = 1 \/ n[i] \in Upper}
PartEnd(n, i) ==
    IF \E j \in Cuts(n) : j > i
    THEN (CHOOSE j \in Cuts(n) : j > i /\ \A m \in Cuts(n) : m > i => j <= m) - 1
    ELSE Len(n)
NameParts(n) ==
    LET cs == Cuts(n)
        start[k \in 1..Cardinality(cs)] ==
            CHOOSE i \in cs : Cardinality({j \in cs : j < i}) = k - 1
    IN [k \in 1..Cardinality(cs) |-> SubSeq(n, start[k], PartEnd(n, start[k]))]

Unwrapped(t) == IF Kind(t) = "Ptr" THEN Elem(t) ELSE t

RECURSIVE Resolves(_, _, _)
\* part k is a field of record type t and, unless it is the last part, the
\* pointer-unwrapped type of that field is a record type holding the rest
Resolves(t, parts, k) ==
    LET j == ExactIndex(t, parts[k])
    IN /\ j > 0
       /\ k < Len(parts) =>
            /\ Kind(Unwrapped(FieldType(t, j))) = "Struct"
            /\ Resolves(Unwrapped(FieldType(t, j)), parts, k + 1)

RECURSIVE Reach(_, _, _, _)
\* the nested value the parts lead to in record value v of type t;
\* present is FALSE when a nil pointer is on the way
Reach(t, v, parts, k) ==
    LET j == ExactIndex(t, parts[k])
        ft == FieldType(t, j)
    IN IF k = Len(parts) THEN [present |-> TRUE, t |-> ft, v |-> v[j]]
       ELSE IF Kind(ft) = "Ptr"
            THEN IF v[j] = <<>> THEN [present |-> FALSE, t |-> ft, v |-> v[j]]
                 ELSE Reach(Elem(ft), v[j][1], parts, k + 1)
            ELSE Reach(ft, v[j], parts, k + 1)

\* destination fields that have no exact-name source field and flatten
Flattened(src, dest) ==
    {i \in 1..Len(StructFields(dest)) :
        LET n == StructFields(dest)[i].name
        IN /\ ExactIndex(src, n) = 0
           /\ Len(NameParts(n)) > 1
           /\ Resolves(src, NameParts(n), 1)}

\* destination fields with neither an exact-name nor a flattening match
Unmatched(src, dest) ==
    {i \in 1..Len(StructFields(dest)) :
        /\ ExactIndex(src, StructFields(dest)[i].name) = 0
        /\ i \notin Flattened(src, dest)}

\* C8: a destination field without an exact-name match whose name parts
\* resolve through the source's nested record types holds, after a
\* successful call, the nested source value those parts lead to; the source
\* {Customer:{Name:"Alice"}, Total:99.99} maps to {Total:99.99, CustomerName:"Alice"}.
C8_FlatteningCorrectness ==
    Succeeded =>
        /\ \A i \in Flattened(SrcT, DestT) :
             LET r == Reach(SrcT, call.src, NameParts(StructFields(DestT)[i].name), 1)
             IN (r.present /\ r.t = FieldType(DestT, i)) => call.dest[i] = r.v
        /\ (call.key = <<"Order", "OrderDTO">> /\ call.src = <<9999, <<"Alice">>>>)
           => call.dest = <<9999, "Alice">>

C8_Witness ==
    /\ call.op = "Map" /\ Succeeded
    /\ call.key = <<"OrderP", "OrderDTO">>
    /\ 2 \in Flattened(SrcT, DestT)
    /\ call.src = <<9999, <<<<"Alice">>>>>>
    /\ call.dest = <<9999, "Alice">>

\* C9: when the source type has a field named exactly like a destination
\* field, the member rule binds that field and not a nested chain; a rule
\* uses flattening only when there is no exact-name source field.
C9_ExactMatchWins ==
    /\ \A key \in DOMAIN typeMaps :
         \A k \in 1..Len(typeMaps[key].memberMaps) :
            LET mm == typeMaps[key].memberMaps[k]
                j == ExactIndex(key[1], mm.destField)
            IN /\ j > 0 => (~mm.useFlattening /\ mm.srcFieldIdx = <<j>>)
               /\ mm.useFlattening => j = 0
    /\ (Succeeded /\ call.key = <<"OrderX", "OrderDTO">>) => call.dest[2] = call.src[3]

C9_Witness ==
    /\ Succeeded
    /\ call.key = <<"OrderX", "OrderDTO">>
    /\ Resolves(SrcT, NameParts(nCustomerName), 1)
    /\ call.src = <<9999, <<"Alice">>, "x">>
    /\ call.dest = <<9999, "x">>

\* C10: a destination field with neither an exact-name nor a flattening
\* match has no member rule; the call returns no error, and the field is
\* zero after Map and keeps its previous value after MapTo.
C10_UnmatchedFieldOmission ==
    /\ \A key \in DOMAIN typeMaps :
         \A i \in Unmatched(key[1], key[2]) :
            MemberIndex(typeMaps[key].memberMaps, StructFields(key[2])[i].name) = 0
    /\ (Called /\ Unmatched(SrcT, DestT) # {}) =>
         /\ Len(call.err) = 0
         /\ \A i \in Unmatched(SrcT, DestT) :
              /\ call.dest[i] = call.destPre[i]
              /\ call.op = "Map" => call.dest[i] = Zero(FieldType(DestT, i))

C10_Witness ==
    /\ call.op = "MapTo" /\ Succeeded
    /\ call.key = <<"Order", "OrderView">>
    /\ Unmatched(SrcT, DestT) = {2, 3, 4}
    /\ call.src = <<9999, <<"Alice">>>>
    /\ call.destPre = <<"z", "z", "z", "z">>
    /\ call.dest = <<"Alice", "z", "z", "z">>

\* C11: for a nil source slice MapSlice returns no error and a non-nil empty
\* slice on a default mapper, a nil slice on a mapper built with
\* WithAllowNullCollections.
C11_MapSliceNilPolicy ==
    (call.op = "MapSlice" /\ call.src.nil) =>
        /\ Len(call.err) = 0
        /\ Len(call.dest.elems) = 0
        /\ call.dest.nil = allowNilColl

C11_Witness ==
    /\ call.op = "MapSlice" /\ call.src = NilSlice
    /\ allowNilColl
    /\ call.dest = NilSlice /\ Len(call.err) = 0

\* C12: when a matched source field holds a nil sequence, the destination
\* field after a successful call is a non-nil empty sequence on a default
\* mapper and a nil sequence on a mapper with WithAllowNullCollections, for
\* identical sequence types and for differing element types.
C12_NilSliceFieldPolicy ==
    (Succeeded /\ call.op \in {"Map", "MapTo"}) =>
        \A k \in Members :
            LET mm == TM.memberMaps[k]
                i == mm.destFieldIdx[1]
                j == mm.srcFieldIdx[1]
            IN ( /\ Len(mm.srcFieldIdx) = 1 /\ Unconfigured(mm)
                 /\ Kind(FieldType(SrcT, j)) = "Slice"
                 /\ Kind(FieldType(DestT, i)) = "Slice"
                 /\ call.src[j].nil )
               => call.dest[i] = IF allowNilColl THEN NilSlice ELSE MakeSlice(<<>>)

\* The part of C12 the code keeps: the policy is applied where the two
\* sequence types differ, so that assignValue reaches mapSlice.
NilSliceFieldOfOtherType ==
    (Succeeded /\ call.op \in {"Map", "MapTo"}) =>
        \A k \in Members :
            LET mm == TM.memberMaps[k]
                i == mm.destFieldIdx[1]
                j == mm.srcFieldIdx[1]
            IN ( /\ Len(mm.srcFieldIdx) = 1 /\ Unconfigured(mm)
                 /\ Kind(FieldType(SrcT, j)) = "Slice"
                 /\ Kind(FieldType(DestT, i)) = "Slice"
                 /\ ~AssignableTo(FieldType(SrcT, j), FieldType(DestT, i))
                 /\ call.src[j].nil )
               => call.dest[i] = IF allowNilColl THEN NilSlice ELSE MakeSlice(<<>>)

RECURSIVE Observe(_, _, _, _)
\* what the hooks of a list leave behind when they run one after the other,
\* in list order, on a destination whose Name is name and whose Log is log
Observe(hooks, i, name, log) ==
    IF i > Len(hooks) THEN [name |-> name, log |-> log]
    ELSE IF hooks[i] = "modify" THEN Observe(hooks, i + 1, "Modified", log)
    ELSE Observe(hooks, i + 1, name, log \o <<HookTag(hooks[i]), name>>)

HasHooks(tm) == Len(tm.beforeMap) > 0 \/ Len(tm.afterMap) > 0

C15_CreateMapIdempotent ==
    [][\A key \in DOMAIN typeMaps :
          CreateMap(key) => typeMaps'[key] = typeMaps[key]]_vars

RECURSIVE Reaches(_)
\* the record types a value of type t holds: t itself and, through fields,
\* pointers and sequences, the record types of its parts
Reaches(t) ==
    IF Kind(t) \in {"Ptr", "Slice"} THEN Reaches(Elem(t))
    ELSE IF Kind(t) # "Struct" THEN {}
    ELSE {t} \cup UNION {Reaches(StructFields(t)[i].type) : i \in 1..Len(StructFields(t))}

\* C16: CreateMap for (A,B) adds or changes only the entries keyed (A,B):
\* every other type mapping, every other compiled strategy and every
\* converter is as before, and no entry for (B,A) is made; an entry for a
\* pair appears only in a CreateMap for that pair, a ReverseMap on a builder
\* of the reverse pair, or a mapping call that maps a value of the pair's
\* source type to its destination type.
C16_CreateMapFrame ==
    [][ /\ \A key \in RegistryPairs :
             CreateMap(key) =>
                /\ DOMAIN typeMaps' = DOMAIN typeMaps \cup {key}
                /\ \A k \in DOMAIN typeMaps \ {key} : typeMaps'[k] = typeMaps[k]
                /\ DOMAIN optimizedMaps' \subseteq DOMAIN optimizedMaps \cup {key}
                /\ \A k \in DOMAIN optimizedMaps \ {key} :
                      k \in DOMAIN optimizedMaps' /\ optimizedMaps'[k] = optimizedMaps[k]
                /\ converters' = converters
        /\ \A k \in DOMAIN typeMaps' \ DOMAIN typeMaps :
             \/ CreateMap(k)
             \/ ReverseMap(Reverse(k))
             \/ /\ call.op = "none"
                /\ call'.op \in {"Map", "MapTo", "MapSlice"}
                /\ k[1] \in Reaches(call'.key[1])
                /\ k[2] \in Reaches(call'.key[2]) ]_vars

C16_Witness ==
    /\ Idle
    /\ ItemPair \in builders
    /\ DOMAIN typeMaps = {ItemPair, <<"SourceWithSlice", "DestWithSlice">>}
    /\ DOMAIN optimizedMaps = DOMAIN typeMaps
    /\ Reverse(ItemPair) \notin DOMAIN typeMaps
    /\ DOMAIN converters = {<<"string", "string">>, <<"int", "int64">>}

\* the events that built an object of one kind for key k
Built(kind, k) == {i \in 1..Len(events) : events[i].kind = kind /\ events[i].key = k}

\* C17: under every interleaving of getTypeInfo calls on one cache, the
\* metadata of a type is built at most once, every caller gets the one
\* completed instance the cache holds for the (pointer-unwrapped) type, and
\* an entry of the cache is never replaced or removed.
C17_CacheFirstUse ==
    [][ /\ \A t \in StructTypes : Cardinality(Built("typeInfo", t)') <= 1
        /\ \A th \in Threads :
             (local'[th].at = "getTypeInfo" /\ local'[th].returned) =>
                /\ local'[th].t \in DOMAIN typeCache'
                /\ local'[th].inst = insts'[local'[th].t]
                /\ local'[th].info = typeCache'[local'[th].t]
                /\ local'[th].info = buildTypeInfo(local'[th].t)
        /\ \A t \in DOMAIN typeCache :
             /\ t \in DOMAIN typeCache'
             /\ typeCache'[t] = typeCache[t]
             /\ insts'[t] = insts[t] ]_vars

C17_Witness ==
    /\ \A th \in Threads :
         /\ pc[th] = "idle"
         /\ local[th].at = "getTypeInfo" /\ local[th].returned
         /\ local[th].t = "SourceBasic"
         /\ local[th].inst = insts["SourceBasic"]
    /\ events[insts["SourceBasic"]].by = 1
    /\ DOMAIN typeCache = {"SourceBasic"}

\* C18: under every interleaving of mapping calls for a pair with no
\* registered mapping, one type mapping is auto-created and stored for the
\* pair, and every call executes with that mapping.
C18_RegistryFirstUse ==
    /\ \A key \in FirstUsePairs : Cardinality(Built("TypeMap", key)) <= 1
    /\ \A th \in Threads :
         (local[th].at = "Map" /\ pc[th] \in {"ms_exec", "idle"}) =>
            /\ Cardinality(Built("TypeMap", local[th].key)) = 1
            /\ local[th].key \in DOMAIN typeMaps
            /\ local[th].tm = insts[local[th].key]
            /\ local[th].returned =>
                  /\ Len(local[th].err) = 0
                  /\ local[th].dest = mapValue(NoneTier(Cfg),
                                               RV(local[th].key[1], local[th].src, FALSE),
                                               local[th].key[2],
                                               Zero(local[th].key[2])).v

C18_Witness ==
    /\ \A th \in Threads :
         /\ pc[th] = "idle"
         /\ local[th].at = "Map" /\ local[th].returned
         /\ local[th].key = <<"SourceBasic", "DestBasic">>
         /\ ~local[th].exists
         /\ local[th].dest = <<"a", 65, "e">>
    /\ optLevel = OptimizationSpecialized
    /\ events[insts[<<"SourceBasic", "DestBasic">>]].by = 2

\* the rules a list of member maps holds for destination field n
RulesFor(memberMaps, n) ==
    {memberMaps[i] : i \in {j \in 1..Len(memberMaps) : memberMaps[j].destField = n}}

RECURSIVE ApplyAll(_, _, _)
ApplyAll(mm, opts, k) ==
    IF k > Len(opts) THEN mm ELSE ApplyAll(ApplyMemberOption(mm, opts[k]), opts, k + 1)

\* the rule a ForMemberByName call leaves when it has returned
Configured(l) ==
    LET old == RulesFor(l.before, l.name)
        idx == ExactIndex(l.key[2], l.name)
    IN IF old # {}
       THEN {ApplyAll(l.before[MemberIndex(l.before, l.name)], l.opts, 1)}
       ELSE IF idx > 0 THEN {ApplyAll(NewMemberMap(l.name, <<idx>>), l.opts, 1)}
       ELSE {}

\* C19: a mapping call that runs while a builder call configures a member
\* rule of the same pair finds that rule either as it was before the
\* builder call or with all the call's options applied.
C19_NoTornRule ==
    \A m \in Threads : \A b \in Threads :
        ( /\ local[m].at = "Map" /\ local[m].returned
          /\ local[b].at = "ForMember"
          /\ local[b].key = local[m].key )
        => \/ RulesFor(local[m].rules, local[b].name) = RulesFor(local[b].before, local[b].name)
           \/ RulesFor(local[m].rules, local[b].name) = Configured(local[b])

\* the source value a member rule reads is nil or lies behind a nil pointer
AbsentFor(mm) == ~derefValue(getNestedField(SrcRV, mm.srcFieldIdx)).valid

\* C20: a nil source, at the top level or in a matched record field, gives
\* no error and leaves the destination slot as it was; a nil destination
\* pointer stays nil.
C20_AbsentSourceNoOp ==
    /\ call.op = "MapToNil" => (Len(call.err) = 0 /\ call.dest = call.destPre)
    /\ (call.op \in {"Map", "MapTo"} /\ call.key \in PointerPairs) =>
          /\ Len(call.err) = 0
          /\ \A k \in Members :
               LET mm == TM.memberMaps[k]
               IN AbsentFor(mm) =>
                    call.dest[mm.destFieldIdx[1]] = call.destPre[mm.destFieldIdx[1]]

C20_Witness ==
    /\ call.op = "MapTo" /\ Succeeded
    /\ optLevel = OptimizationUnsafe
    /\ call.key = <<"SourceWithPointer", "DestWithPointer">>
    /\ call.src = <<"a", <<>>>>
    /\ AbsentFor(TM.memberMaps[2])
    /\ call.destPre = <<"", <<>>>>
    /\ call.dest = <<"a", <<>>>>

\* the elements of a sequence that the registered hook rejects, and the
\* first of them (0: none)
Rejecting ==
    ItemPair \in DOMAIN typeMaps /\ Len(typeMaps[ItemPair].beforeMap) > 0
BadAt(elems) == {i \in 1..Len(elems) : Rejecting /\ elems[i][1] = 2}
FirstBad(elems) ==
    IF BadAt(elems) = {} THEN 0
    ELSE CHOOSE i \in BadAt(elems) : \A j \in BadAt(elems) : i <= j

\* C21: when element i of a source sequence is the first to fail, MapSlice
\* returns a nil result and an error naming index i whose chain ends in the
\* element's error; a nested sequence fails the call the same way and the
\* destination field keeps its value.
C21_ElementFailure ==
    /\ call.op = "MapSlice" =>
          LET i == FirstBad(call.src.elems)
          IN IF i = 0 THEN Len(call.err) = 0 /\ Len(call.dest.elems) = Len(call.src.elems)
             ELSE /\ call.err = <<Frame(ElementMessage(i - 1), NoName),
                                  Frame("bad id", NoName)>>
                  /\ call.dest = NilSlice
    /\ (call.op \in {"Map", "MapTo"} /\ call.key \in CollPairs) =>
          LET i == FirstBad(call.src[2].elems)
          IN IF i = 0 THEN Len(call.err) = 0
             ELSE /\ call.err = <<Frame(SliceElementMessage(i - 1), NoName),
                                  Frame("bad id", NoName)>>
                  /\ call.dest[2] = call.destPre[2]

C21_Witness ==
    /\ call.op = "MapSlice"
    /\ call.src = MakeSlice(<<<<1, "a">>, <<2, "e">>, <<2, "a">>>>)
    /\ call.err = <<Frame("error mapping element at index 1", NoName),
                    Frame("bad id", NoName)>>
    /\ call.dest = NilSlice

\* the error of the callback that fails for member rule k of the call, <<>>
\* if none does: the resolver "broken", the field converter given a value
\* that is not a string, the global converter given the empty string
ResolverCause(k) ==
    IF TM.memberMaps[k].resolver = "broken" THEN Err("resolver failed") ELSE NoErr
FieldConverterCause(k) ==
    IF /\ TM.memberMaps[k].resolver = "" /\ TM.memberMaps[k].converter = "upperField"
       /\ FieldType(SrcT, TM.memberMaps[k].srcFieldIdx[1]) # "string"
    THEN Err("not a string") ELSE NoErr
GlobalConverterCause(k) ==
    IF /\ TM.memberMaps[k].resolver = "" /\ TM.memberMaps[k].converter = ""
       /\ <<"string", "string">> \in DOMAIN converters
       /\ FieldType(SrcT, TM.memberMaps[k].srcFieldIdx[1]) = "string"
       /\ FieldType(DestT, TM.memberMaps[k].destFieldIdx[1]) = "string"
       /\ call.src[TM.memberMaps[k].srcFieldIdx[1]] = ""
    THEN Err("empty string") ELSE NoErr
FirstWith(Cause(_)) ==
    LET ks == {k \in Members : Len(Cause(k)) > 0}
    IN IF ks = {} THEN 0 ELSE CHOOSE k \in ks : \A j \in ks : k <= j
Named(k, cause) ==
    /\ Len(call.err) = 1 + Len(cause)
    /\ call.err[1].field = TM.memberMaps[k].destField
    /\ Tail(call.err) = cause

\* C22: when a resolver, a field converter or a global converter fails for
\* a destination field D, the call returns an error whose FieldName is D
\* and whose cause is the callback's error.
C22_CallbackFieldName ==
    (call.op = "Map" /\ call.key = CallbackPair) =>
      LET AnyCause(k) == ResolverCause(k) \o FieldConverterCause(k) \o GlobalConverterCause(k)
          k == FirstWith(AnyCause)
      IN k # 0 => Named(k, AnyCause(k))

\* the part of C22 about resolvers and field converters, on mappers with no
\* global converter that do not copy raw memory
ResolverFailureNamed ==
    (call.op = "Map" /\ call.key = CallbackPair /\ converters = EmptyMap /\ ~useUnsafe) =>
      LET AnyCause(k) == ResolverCause(k) \o FieldConverterCause(k)
          k == FirstWith(AnyCause)
      IN IF k = 0 THEN Len(call.err) = 0 ELSE Named(k, AnyCause(k))

\* a source type and a destination type with no registered converter, no
\* assignment, no conversion and no record-to-record or
\* sequence-to-sequence mapping between them
NoPath(s, d) ==
    /\ <<s, d>> \notin DOMAIN converters
    /\ ~AssignableTo(s, d) /\ ~ConvertibleTo(s, d)
    /\ ~(Kind(s) = "Struct" /\ Kind(d) = "Struct")
    /\ ~(Kind(s) = "Slice" /\ Kind(d) = "Slice")

\* C23: a call whose source and destination types, or the types of a
\* matched field pair with a present source value, have no mapping path
\* returns an error.
C23_NoSilentMismatch ==
    (call.op \in {"Map", "MapTo"} /\ call.key \in MismatchPairs) =>
      /\ NoPath(SrcT, DestT) => Len(call.err) > 0
      /\ (Kind(DestT) = "Struct" /\ call.key \in DOMAIN typeMaps) =>
            \A k \in Members :
              LET mm == TM.memberMaps[k]
              IN (~AbsentFor(mm) /\ NoPath(FieldType(SrcT, mm.srcFieldIdx[1]),
                                           FieldType(DestT, mm.destFieldIdx[1])))
                 => Len(call.err) > 0

\* the part of C23 about scalar sources and about matched record fields
ScalarOrFieldMismatchFails ==
    (call.op \in {"Map", "MapTo"} /\ call.key \in MismatchPairs
       /\ ~(Kind(SrcT) = "Struct" /\ Kind(DestT) # "Struct")) =>
      C23_NoSilentMismatch /\ Len(call.err) > 0

\* C24: no mapping call ends in a run-time panic.
C24_NoFatalCall == ~IsPanic(call.err)

\* the destination map holds one entry per source entry, each the mapped
\* record (SourceItem and DestItem have the fields ID and Name)
EntriesMapped(src, dest) ==
    /\ ~dest.nil
    /\ DOMAIN dest.entries = DOMAIN src.entries
    /\ \A k \in DOMAIN src.entries : dest.entries[k] = src.entries[k]

\* C25: a matched record field holding a map of records is mapped entry by
\* entry onto a destination field whose map has another record value type.
C25_MapFieldRecurses ==
    (call.op \in {"Map", "MapTo"} /\ call.key = CatalogPair) =>
      /\ Len(call.err) = 0
      /\ EntriesMapped(call.src[3], call.dest[3])

\* a map of records given to Map / MapTo itself is mapped entry by entry
TopLevelMapRecurses ==
    (call.op \in {"Map", "MapTo"} /\ call.key = ItemMapPair /\ ~call.src.nil) =>
      /\ Len(call.err) = 0
      /\ EntriesMapped(call.src, call.dest)

\* C26: a compiled mapping is marked all-primitive, or given the compiled
\* field copy, only if each of its member rules is single-hop on both sides
\* and joins two fields of one primitive type.
C26_AllPrimitiveIdentical ==
    \A key \in DOMAIN optimizedMaps :
      (optimizedMaps[key].allPrimitive \/ optimizedMaps[key].specializedFn) =>
        \A i \in 1..Len(optimizedMaps[key].optimizedMembers) :
          LET mm == typeMaps[key].memberMaps[i]
          IN /\ Len(mm.srcFieldIdx) = 1 /\ Len(mm.destFieldIdx) = 1
             /\ FieldType(key[1], mm.srcFieldIdx[1]) = FieldType(key[2], mm.destFieldIdx[1])
             /\ isPrimitiveKind(Kind(FieldType(key[1], mm.srcFieldIdx[1])))

\* C27: the field list of every cached TypeInfo holds each field name at
\* most once, and the look-up by name yields the list entry of that name.
C27_FieldNamesUnique ==
    \A t \in DOMAIN typeCache :
      LET fields == typeCache[t].fields
      IN /\ \A i, j \in 1..Len(fields) : fields[i].name = fields[j].name => i = j
         /\ \A i \in 1..Len(fields) :
              FieldByName(typeCache[t], fields[i].name).name = fields[i].name

\* the nodes reached from the first one by following Next
RECURSIVE Chain(_, _, _)
Chain(heap, a, seen) ==
    IF a = 0 \/ a \in seen THEN <<>> ELSE <<a>> \o Chain(heap, heap[a].next, seen \cup {a})
Cyclic(heap) ==
    LET c == Chain(heap, 1, {}) IN heap[c[Len(c)]].next # 0
Returned(th) == local[th].at = "mapNode" /\ local[th].status \in {"ok", "error"}

\* C28: every mapping call returns, with success or an error, also when the
\* source is a linked record whose pointers form a cycle.
C28_Terminates == (pc[1] = "mn_struct") ~> Returned(1)

\* a call on a linked record without a cycle returns with every node mapped
AcyclicTerminates ==
    (pc[1] = "mn_struct" /\ ~Cyclic(local[1].heap)) ~>
      (Returned(1) /\ local[1].dest = Chain(local[1].heap, 1, {}))

\* C29: on a mapper built by NewWithConfig from any sequence of options the
\* unsafe flag is set exactly when the final optimization level is Unsafe
\* or Specialized
C29_UnsafeFlagMatchesLevel ==
    useUnsafe <=> optLevel \in {OptimizationUnsafe, OptimizationSpecialized}

\* the goroutines a goroutine inside Lock or RLock waits for.  RLock waits
\* for the writer and, as sync.RWMutex gives writers precedence, for the
\* goroutines inside Lock; Lock waits for the writer and for every reader.
WaitsOn(mu, lockPcs, rlockPcs, th) ==
    IF pc[th] \in lockPcs THEN ({mu.writer} \ {0}) \cup mu.readers
    ELSE IF pc[th] \in rlockPcs
    THEN ({mu.writer} \ {0})
         \cup (IF mu.writer = 0 /\ mu.readers = {} THEN {}
               ELSE {u \in Threads \ {th} : pc[u] \in lockPcs})
    ELSE {}

WaitsFor(th) ==
    WaitsOn(configMu, ConfigLockPcs, ConfigRLockPcs, th)
    \cup WaitsOn(cacheMu, CacheLockPcs, CacheRLockPcs, th)

RECURSIVE WaitClosure(_, _)
WaitClosure(S, n) ==
    IF n = 0 THEN S ELSE WaitClosure(S \cup UNION {WaitsFor(u) : u \in S}, n - 1)

\* the goroutine waits for a lock that cannot be released before it moves
Deadlocked(th) == th \in WaitClosure(WaitsFor(th), NThreads)

\* C30: no registry lock and no cache lock is held by a goroutine while a
\* callback of its call executes, no goroutine asks for the registry lock
\* while it holds the cache lock, and no goroutine is deadlocked, whatever
\* calls the goroutines and their callbacks make on the mapper
C30_CallbacksRunUnlocked ==
    \A th \in Threads :
      /\ pc[th] \in CallbackPcs => ~Holds(configMu, th) /\ ~Holds(cacheMu, th)
      /\ pc[th] \in ConfigLockPcs \cup ConfigRLockPcs => ~Holds(cacheMu, th)
      /\ ~Deadlocked(th)

\* a global converter called by mapValue has called CreateMap, which waits
\* for the registry lock while another goroutine holds it
C30_Witness ==
    \E th \in Threads : \E u \in Threads \ {th} :
      /\ pc[th] = "CreateMap:179"
      /\ local[th].stack # <<>>
      /\ Head(local[th].stack).pc = "mapValue:104"
      /\ Holds(configMu, u)

====
